---- MODULE Spec2Model ----
(***************************************************************************)
(* Model of the http-fp client (BotWitter/http-fp): the retry engine of    *)
(* retry.py, the profile generation, header composition and request path   *)
(* of client.py, config.py and fingerprint/*.py, the proxy configuration   *)
(* of config.py and the session persistence of session.py.                 *)
(*                                                                         *)
(* The specifications share the variables, each driving one component and  *)
(* leaving the others in their initial state:                              *)
(*   SpecRetry    RetryConfig / RetryMixin driven by an arbitrary          *)
(*                request_func (SpecRetryFair: with the loop going on);    *)
(*   SpecProfile  HTTPClient construction with every argument, then        *)
(*                randomize();                                             *)
(*   SpecClient   HTTPClient: construction, randomize(), _get_headers(),   *)
(*                _make_request();                                         *)
(*   SpecGen      JA3Generator.generate, AkamaiGenerator.generate and      *)
(*                BrowserInfo.generate called directly;                    *)
(*   SpecSession  SessionManager: cookies, save/load, export/import;       *)
(*   SpecProxy    ProxyConfig.from_env() and get_proxies_dict();           *)
(*   SpecCookies  HTTPClient: randomize() and requests to a server that    *)
(*                sets a cookie;                                           *)
(*   SpecRandom   two clients of one interpreter calling the functions of  *)
(*                the module random;                                       *)
(*   SpecPolicies two clients constructed with RetryConfig objects of the  *)
(*                caller, and set_retry_config on them.                    *)
(*                                                                         *)
(* Strings are atomic for TLC, so every substring or regex test of the     *)
(* code is modelled on the tokens it looks for (ua_has, ch_has, chrome_v,  *)
(* edg_v, version_v in PROFILES), computed from the source table.  Proxy   *)
(* URLs, which a regular expression takes apart, are sequences of tokens:  *)
(* the characters ":", "/", "@" and the words between them.                *)
(* Floats are modelled as exact rationals: backoff_factor in tenths of a   *)
(* second, delays in units of 1/(10*DelayScale) s.                         *)
(***************************************************************************)
EXTENDS Integers, Sequences, FiniteSets, TLC

VARIABLES
    \* ---- retry.py ----
    retry_config,     \* self._retry_config (a RetryConfig)
    pc,               \* position of request_with_retry: "idle", "loop", "done"
    attempt,          \* loop variable of `for attempt in range(...)`
    n_range,          \* max_retries + 1 as evaluated by range() at loop entry
    last_exception,   \* local last_exception
    last_response,    \* local last_response (never assigned by the code)
    calls,            \* outcomes of request_func in the current call, in order
    sleeps,           \* completed time.sleep calls of the current call, in order
    result,           \* how the current call ended: a return or a raise
    \* ---- client.py ----
    ctor,             \* constructor arguments kept on the client
    profile,          \* self._profile
    session,          \* self._session (what it was constructed from, its cookies)
    session_manager,  \* self._session_manager (the session it manages)
    request_count,    \* self._request_count
    composed,         \* number of header sets _get_headers has composed
    headers,          \* the header set composed by the last step, if any
    call_args,        \* the arguments _get_headers composed it from
    sent,             \* the request handed to the transport by the last step, if any
    \* ---- fingerprint/ja3.py, fingerprint/akamai.py, config.py (generators) ----
    base_extensions,  \* the class attribute JA3Generator.BASE_EXTENSIONS (a list)
    gen_call,         \* the generator a caller calls repeatedly, and its arguments
    gen_result,       \* what its last call returned or raised
    \* ---- session.py ----
    jar,              \* self._session.cookies.jar of the managed session
    session_headers,  \* self._session.headers of the managed session
    file,             \* what the file system holds at the path the calls name
    writing,          \* the `with path.open("w")` block being executed, if any
    store_op,         \* the last step, if it ended a load/save/import/export
    \* ---- config.py (ProxyConfig) ----
    environ,          \* os.environ: the four proxy variables
    proxy_config,     \* the ProxyConfig that from_env() returned, if called
    proxies,          \* what get_proxies_dict() returned on it, if called
    \* ---- the process: several clients in one interpreter ----
    rng_state,        \* state of the generator behind the functions of `random`
    draws,            \* per client, the values its random calls returned, in order
    objects,          \* the RetryConfig objects of the process, by identity
    retry_ref,        \* per client, the object self._retry_config refers to
    process_call      \* the last call followed on one of the clients, if any

retryVars == <<retry_config, pc, attempt, n_range, last_exception,
               last_response, calls, sleeps, result>>
clientVars == <<ctor, profile, session, session_manager, request_count,
                composed, headers, call_args, sent>>
genVars == <<base_extensions, gen_call, gen_result>>
storeVars == <<jar, session_headers, file, writing, store_op>>
proxyVars == <<environ, proxy_config, proxies>>
randomVars == <<rng_state, draws>>
policyVars == <<objects, retry_ref>>
vars == <<retry_config, pc, attempt, n_range, last_exception, last_response,
          calls, sleeps, result, ctor, profile, session, session_manager,
          request_count, composed, headers, call_args, sent,
          base_extensions, gen_call, gen_result,
          jar, session_headers, file, writing, store_op,
          environ, proxy_config, proxies,
          rng_state, draws, objects, retry_ref, process_call>>
\* what the steps of one component leave alone
notRetry == <<clientVars, genVars, storeVars, proxyVars,
    randomVars, policyVars, process_call>>
notClient == <<retryVars, genVars, storeVars, proxyVars,
    randomVars, policyVars, process_call>>
notGen == <<retryVars, clientVars, storeVars, proxyVars,
    randomVars, policyVars, process_call>>
notStore == <<retryVars, clientVars, genVars, proxyVars,
    randomVars, policyVars, process_call>>
notProxy == <<retryVars, clientVars, genVars, storeVars,
    randomVars, policyVars, process_call>>
notRandom == <<retryVars, clientVars, genVars, storeVars, proxyVars,
    policyVars>>
notPolicy == <<retryVars, clientVars, genVars, storeVars, proxyVars,
    randomVars>>

\* Python's None, for optional arguments and fields.
None == "None"
\* None where a record (response, exception, profile, ...) is expected.
NoValue == [kind |-> "none"]
\* An optional argument that is not a string: <<>> is None, <<x>> is x.
Absent == <<>>
Given(x) == <<x>>
Optional(S) == {Absent} \cup {Given(x) : x \in S}

\* ------------------------------------------------------------------------
\* Bounds of the model
\* ------------------------------------------------------------------------
\* largest max_retries a caller passes (the default policy has 3)
MaxRetriesArg == 3
\* random.random() is drawn from the grid {0, 1/JitterGrid, ...} of [0, 1)
JitterGrid == 2
\* number of combinations of random draws of a profile generation kept apart
NumDraws == 2
\* number of header sets composed on one client
MaxRequests == 3
\* number of cookies a session's jar holds
MaxCookies == 2

\* ------------------------------------------------------------------------
\* retry.py: RetryConfig
\* ------------------------------------------------------------------------
\* delays are kept as integers: a delay d seconds is stored as d*10*DelayScale
DelayScale == 2 * JitterGrid

\* RetryConfig() field defaults; backoff_factor 0.5 s = 5 tenths
DefaultRetryOnStatus == {429, 500, 502, 503, 504}
DefaultRetryConfig ==
    [max_retries |-> 3, backoff_factor |-> 5,
     retry_on_status |-> DefaultRetryOnStatus,
     retry_on_timeout |-> TRUE, jitter |-> TRUE]

\* values callers pass; none of them is validated by the code
MaxRetriesArgs == (-1) .. MaxRetriesArg
BackoffFactorArgs == {-1, 0, 1, 5}
RetryOnStatusArgs == {DefaultRetryOnStatus, {}, {404, 503}}

\* status codes and exceptions request_func produces
Statuses == {200, 404, 503}
Exceptions == {"Timeout", "ConnectionError"}

Response(s, i) == [kind |-> "response", status |-> s, at |-> i]
Raised(e, i) == [kind |-> "exception", name |-> e, src |-> "request_func", at |-> i]
\* time.sleep(d) with d < 0 raises ValueError
SleepError(i) == [kind |-> "exception", name |-> "ValueError", src |-> "sleep", at |-> i]
ExhaustedError == [kind |-> "exception", name |-> "RuntimeError", src |-> "post-loop", at |-> 0]

\* should_retry with every 4xx/5xx response treated as retryable
should_retry_AnyErrorStatus(cfg, response, exception) ==
    IF exception # NoValue THEN cfg.retry_on_timeout
    ELSE IF response # NoValue
            /\ (response.status \in cfg.retry_on_status \/ response.status >= 400)
    THEN TRUE
    ELSE FALSE

\* should_retry with the retry_on_timeout flag ignored
should_retry_AlwaysOnException(cfg, response, exception) ==
    IF exception # NoValue THEN TRUE
    ELSE IF response # NoValue /\ response.status \in cfg.retry_on_status THEN TRUE
    ELSE FALSE

\* RetryConfig.should_retry(response, exception)
should_retry(cfg, response, exception) ==
    IF exception # NoValue THEN cfg.retry_on_timeout
    ELSE IF response # NoValue /\ response.status \in cfg.retry_on_status THEN TRUE
    ELSE FALSE

RECURSIVE Pow2(_)
Pow2(n) == IF n <= 0 THEN 1 ELSE 2 * Pow2(n - 1)

\* RetryConfig.get_backoff_time(attempt); r is the draw of random.random(),
\* r/JitterGrid in [0, 1).  The result is the delay times DelayScale.
get_backoff_time(cfg, a, r) ==
    LET delay == cfg.backoff_factor * Pow2(a)
    IN  IF cfg.jitter THEN delay * (JitterGrid + r) ELSE delay * DelayScale

\* ------------------------------------------------------------------------
\* retry.py: RetryMixin.request_with_retry, one loop iteration at a time
\* ------------------------------------------------------------------------
\* One entry of `sleeps`: time.sleep(delay) called in iteration a, after the
\* i-th call of request_func; time.sleep raises ValueError iff delay < 0.
Sleep(a, delay, i) == [attempt |-> a, delay |-> delay, after |-> i]

\* the except block raising a generic error instead of re-raising e
ExceptBlock_GenericError(cfg, a, e, r, i) ==
    IF should_retry(cfg, NoValue, e) /\ a < cfg.max_retries
    THEN LET backoff == get_backoff_time(cfg, a, r)
         IN  IF backoff >= 0
             THEN [next |-> "continue", value |-> NoValue,
                   slept |-> <<Sleep(a, backoff, i)>>, last_exc |-> e]
             ELSE [next |-> "raise", value |-> SleepError(i),
                   slept |-> <<Sleep(a, backoff, i)>>, last_exc |-> e]
    ELSE [next |-> "raise", value |-> ExhaustedError, slept |-> <<>>,
          last_exc |-> e]

\* `except Exception as e:` block (lines 148-162) of iteration a.
ExceptBlock(cfg, a, e, r, i) ==
    IF should_retry(cfg, NoValue, e) /\ a < cfg.max_retries
    THEN LET backoff == get_backoff_time(cfg, a, r)
         IN  IF backoff >= 0
             THEN [next |-> "continue", value |-> NoValue,
                   slept |-> <<Sleep(a, backoff, i)>>, last_exc |-> e]
             ELSE [next |-> "raise", value |-> SleepError(i),
                   slept |-> <<Sleep(a, backoff, i)>>, last_exc |-> e]
    ELSE [next |-> "raise", value |-> e, slept |-> <<>>, last_exc |-> e]

\* the try body with the off-by-one test `attempt <= max_retries`
TryBlock_OffByOne(cfg, a, response, r1, r2, i, last_exc) ==
    IF should_retry(cfg, response, NoValue) /\ a <= cfg.max_retries
    THEN LET backoff == get_backoff_time(cfg, a, r1)
         IN  IF backoff >= 0
             THEN [next |-> "continue", value |-> NoValue,
                   slept |-> <<Sleep(a, backoff, i)>>, last_exc |-> last_exc]
             ELSE LET h == ExceptBlock(cfg, a, SleepError(i), r2, i)
                  IN  [h EXCEPT !.slept = <<Sleep(a, backoff, i)>> \o h.slept]
    ELSE [next |-> "return", value |-> response, slept |-> <<>>,
          last_exc |-> last_exc]

\* `try:` body (lines 133-147) of iteration a once request_func has returned
\* `response`; a ValueError of time.sleep is raised inside the try and is
\* handled by the except block of the same iteration.
TryBlock(cfg, a, response, r1, r2, i, last_exc) ==
    IF should_retry(cfg, response, NoValue) /\ a < cfg.max_retries
    THEN LET backoff == get_backoff_time(cfg, a, r1)
         IN  IF backoff >= 0
             THEN [next |-> "continue", value |-> NoValue,
                   slept |-> <<Sleep(a, backoff, i)>>, last_exc |-> last_exc]
             ELSE LET h == ExceptBlock(cfg, a, SleepError(i), r2, i)
                  IN  [h EXCEPT !.slept = <<Sleep(a, backoff, i)>> \o h.slept]
    ELSE [next |-> "return", value |-> response, slept |-> <<>>,
          last_exc |-> last_exc]

\* the effect of one iteration on the state of the call
Iterate(out, step) ==
    /\ calls' = Append(calls, out)
    /\ sleeps' = sleeps \o step.slept
    /\ last_exception' = step.last_exc
    /\ IF step.next = "continue"
       THEN /\ attempt' = attempt + 1
            /\ UNCHANGED <<pc, result>>
       ELSE /\ pc' = "done"
            /\ result' = [kind |-> step.next, value |-> step.value]
            /\ UNCHANGED attempt
    /\ UNCHANGED <<retry_config, n_range, last_response>>
    /\ UNCHANGED notRetry

\* entry of request_with_retry (lines 129-132)
StartCall ==
    /\ pc \in {"idle", "done"}
    /\ pc' = "loop"
    /\ attempt' = 0
    /\ n_range' = retry_config.max_retries + 1
    /\ last_exception' = NoValue
    /\ last_response' = NoValue
    /\ calls' = <<>>
    /\ sleeps' = <<>>
    /\ result' = NoValue
    /\ UNCHANGED retry_config
    /\ UNCHANGED notRetry

\* an iteration in which request_func returns a response of status s
AttemptResponse(s, r1, r2) ==
    /\ pc = "loop"
    /\ attempt < n_range
    /\ LET i == Len(calls) + 1
           response == Response(s, i)
       IN  Iterate(response,
                   TryBlock(retry_config, attempt, response, r1, r2, i,
                            last_exception))

\* an iteration in which request_func raises exception e
AttemptException(e, r) ==
    /\ pc = "loop"
    /\ attempt < n_range
    /\ LET i == Len(calls) + 1
           exc == Raised(e, i)
       IN  Iterate(exc, ExceptBlock(retry_config, attempt, exc, r, i))

\* the code after the loop (lines 164-169), reached when range() is used up
LoopExit ==
    /\ pc = "loop"
    /\ attempt >= n_range
    /\ pc' = "done"
    /\ result' = IF last_exception # NoValue
                 THEN [kind |-> "raise", value |-> last_exception]
                 ELSE IF last_response # NoValue
                 THEN [kind |-> "return", value |-> last_response]
                 ELSE [kind |-> "raise", value |-> ExhaustedError]
    /\ UNCHANGED <<retry_config, attempt, n_range, last_exception,
                   last_response, calls, sleeps>>
    /\ UNCHANGED notRetry

\* lines 101-108: the fields of the RetryConfig after the four conditional
\* assignments; an argument None leaves its field alone
Reassigned(config, max_retries, backoff_factor, retry_on_status, retry_on_timeout) ==
    [max_retries |-> IF max_retries # Absent THEN max_retries[1]
                     ELSE config.max_retries,
     backoff_factor |-> IF backoff_factor # Absent THEN backoff_factor[1]
                        ELSE config.backoff_factor,
     retry_on_status |-> IF retry_on_status # Absent THEN retry_on_status[1]
                         ELSE config.retry_on_status,
     retry_on_timeout |-> IF retry_on_timeout # Absent THEN retry_on_timeout[1]
                          ELSE config.retry_on_timeout,
     jitter |-> config.jitter]

\* RetryMixin.set_retry_config (lines 86-108); an argument None leaves the
\* field alone.  The client is used from one thread, so the policy changes
\* between calls; the record of the previous call is dropped with it.
set_retry_config(max_retries, backoff_factor, retry_on_status, retry_on_timeout) ==
    /\ pc \in {"idle", "done"}
    /\ retry_config' = Reassigned(retry_config, max_retries, backoff_factor,
                                   retry_on_status, retry_on_timeout)
    /\ pc' = "idle"
    /\ attempt' = 0
    /\ n_range' = 0
    /\ last_exception' = NoValue
    /\ last_response' = NoValue
    /\ calls' = <<>>
    /\ sleeps' = <<>>
    /\ result' = NoValue
    /\ UNCHANGED notRetry

\* ------------------------------------------------------------------------
\* config.py: ProxyConfig
\* ------------------------------------------------------------------------
\* A string of this part is the sequence of its tokens: each of the
\* characters ":", "/", "@" and each maximal run of other characters (a
\* word).  The empty sequence is the empty string and also None: the code
\* tests both by truth value only.  f-strings concatenate.
Tokens(scheme) == <<scheme, ":", "/", "/">>
Drop(s, n) == SubSeq(s, n + 1, Len(s))
\* index of the first occurrence of the token t in s, 0 if there is none
First(s, t) ==
    IF \E i \in 1 .. Len(s) : s[i] = t
    THEN CHOOSE i \in 1 .. Len(s) : s[i] = t /\ \A j \in 1 .. (i - 1) : s[j] # t
    ELSE 0
\* index of the first occurrence of "://" in s, 0 if there is none
FirstSep(s) ==
    LET at == {i \in 1 .. (Len(s) - 2) :
                  s[i] = ":" /\ s[i + 1] = "/" /\ s[i + 2] = "/"}
    IN  IF at = {} THEN 0 ELSE CHOOSE i \in at : \A j \in at : i <= j
\* `part in s` for a sequence of tokens
Contains(s, part) ==
    \E i \in 0 .. (Len(s) - Len(part)) : SubSeq(s, i + 1, i + Len(part)) = part

\* a proxy URL by its parts: scheme, username and password may be ""
ProxyUrl(scheme, username, password, host) ==
    [scheme |-> scheme, username |-> username, password |-> password,
     host |-> host]
\* the text of the URL: [scheme://][username[:password]@]host
UrlText(u) ==
    (IF u.scheme # "" THEN Tokens(u.scheme) ELSE <<>>)
    \o (IF u.username # ""
        THEN <<u.username>>
             \o (IF u.password # "" THEN <<":", u.password>> ELSE <<>>)
             \o <<"@">>
        ELSE <<>>)
    \o u.host

\* the URLs a user exports in the proxy variables
ProxyUrls ==
    {ProxyUrl(scheme, c[1], c[2], host) :
        scheme \in {"", "http", "https", "socks5"},
        c \in {<<"", "">>, <<"user", "">>, <<"user", "pass">>},
        host \in {<<"host", ":", "8080">>, <<"proxy.example.com">>}}
Unset == <<>>

\* the `or` chain of lines 39-44
EnvProxyUrl(env) ==
    IF env.HTTPS_PROXY # <<>> THEN env.HTTPS_PROXY
    ELSE IF env.HTTP_PROXY # <<>> THEN env.HTTP_PROXY
    ELSE IF env.https_proxy # <<>> THEN env.https_proxy
    ELSE env.http_proxy

\* (?:([^:]+):([^@]+)@)?(.+)$ matched at the start of r (r is not empty):
\* the credentials group matches when a ":" follows at least one token, an
\* "@" follows at least one token after it, and something is left for (.+).
\* [^:]+ cannot pass a ":" and [^@]+ cannot pass an "@", so the groups end
\* at the first ":" and at the first "@" behind it.
MatchRest(r) ==
    LET c == First(r, ":")
        behind == Drop(r, c)
        a == First(behind, "@")
    IN  IF c > 1 /\ a > 1 /\ Len(behind) > a
        THEN [username |-> SubSeq(r, 1, c - 1),
              password |-> SubSeq(behind, 1, a - 1),
              host |-> Drop(behind, a)]
        ELSE [username |-> <<>>, password |-> <<>>, host |-> r]

\* re.match(r"^(https?://)?(?:([^:]+):([^@]+)@)?(.+)$", proxy_url).groups()
\* for a proxy_url that is not empty: the scheme group is taken when the
\* text starts with http:// or https:// and something follows it
MatchGroups(proxy_url) ==
    IF /\ Len(proxy_url) > 4
       /\ proxy_url[1] \in {"http", "https"}
       /\ SubSeq(proxy_url, 2, 4) = <<":", "/", "/">>
    THEN [protocol |-> SubSeq(proxy_url, 1, 4)] @@ MatchRest(Drop(proxy_url, 4))
    ELSE [protocol |-> <<>>] @@ MatchRest(proxy_url)

\* a ProxyConfig
ProxyConfig(url, username, password) ==
    [url |-> url, username |-> username, password |-> password]

\* ProxyConfig.from_env() in the environment env (lines 39-64)
from_env(env) ==
    LET proxy_url == EnvProxyUrl(env)
        m == MatchGroups(proxy_url)
    IN  IF proxy_url = <<>>
        THEN ProxyConfig(<<>>, <<>>, <<>>)
        ELSE ProxyConfig((IF m.protocol # <<>> THEN m.protocol ELSE Tokens("http"))
                         \o m.host,
                         m.username, m.password)

\* ProxyConfig.get_proxies_dict() (lines 73-88); <<>> is the empty dict
get_proxies_dict(self) ==
    LET sep == FirstSep(self.url)
        proxy_url ==
            IF self.username # <<>> /\ self.password # <<>>
            THEN IF sep > 0
                 THEN SubSeq(self.url, 1, sep - 1) \o <<":", "/", "/">>
                      \o self.username \o <<":">> \o self.password \o <<"@">>
                      \o Drop(self.url, sep + 2)
                 ELSE Tokens("http") \o self.username \o <<":">>
                      \o self.password \o <<"@">> \o self.url
            ELSE self.url
    IN  IF self.url = <<>> THEN <<>>
        ELSE [k \in {"http", "https"} |-> proxy_url]

\* proxy_config = ProxyConfig.from_env() (client.py line 55)
CallFromEnv ==
    /\ proxy_config = NoValue
    /\ proxy_config' = from_env(environ)
    /\ UNCHANGED <<environ, proxies>>
    /\ UNCHANGED notProxy

\* proxies = proxy_config.get_proxies_dict() (client.py line 81)
CallGetProxiesDict ==
    /\ proxy_config # NoValue
    /\ proxies = NoValue
    /\ proxies' = get_proxies_dict(proxy_config)
    /\ UNCHANGED <<environ, proxy_config>>
    /\ UNCHANGED notProxy


\* ------------------------------------------------------------------------
\* fingerprint/user_agent.py: UserAgentGenerator
\* ------------------------------------------------------------------------
\* UserAgentGenerator.PROFILES, in source order.  ua_has / ch_has are the
\* markers the code searches for that occur in ua / sec_ch_ua; chrome_v,
\* edg_v and version_v are the numbers matched by Chrome/(\d+), Edg/(\d+)
\* and Version/(\d+) in ua (0: no match).
PROFILES ==
  <<
    [ua |-> "Mozilla/5.0 (Windows NT 10.0; Win64; x64) AppleWebKit/537.36 (KHTML, like Gecko) Chrome/144.0.0.0 Safari/537.36",
     sec_ch_ua |-> "\"Not(A:Brand\";v=\"8\", \"Chromium\";v=\"144\", \"Google Chrome\";v=\"144\"",
     platform |-> "Windows", mobile |-> FALSE,
     ua_has |-> {"Chrome", "Safari"}, ch_has |-> {"Chrome"},
     chrome_v |-> 144, edg_v |-> 0, version_v |-> 0],
    [ua |-> "Mozilla/5.0 (Windows NT 10.0; Win64; x64) AppleWebKit/537.36 (KHTML, like Gecko) Chrome/143.0.0.0 Safari/537.36",
     sec_ch_ua |-> "\"Chromium\";v=\"143\", \"Not/A)Brand\";v=\"24\", \"Google Chrome\";v=\"143\"",
     platform |-> "Windows", mobile |-> FALSE,
     ua_has |-> {"Chrome", "Safari"}, ch_has |-> {"Chrome"},
     chrome_v |-> 143, edg_v |-> 0, version_v |-> 0],
    [ua |-> "Mozilla/5.0 (Windows NT 10.0; Win64; x64) AppleWebKit/537.36 (KHTML, like Gecko) Chrome/142.0.0.0 Safari/537.36",
     sec_ch_ua |-> "\"Chromium\";v=\"142\", \"Not/A)Brand\";v=\"24\", \"Google Chrome\";v=\"142\"",
     platform |-> "Windows", mobile |-> FALSE,
     ua_has |-> {"Chrome", "Safari"}, ch_has |-> {"Chrome"},
     chrome_v |-> 142, edg_v |-> 0, version_v |-> 0],
    [ua |-> "Mozilla/5.0 (Windows NT 10.0; Win64; x64) AppleWebKit/537.36 (KHTML, like Gecko) Chrome/141.0.0.0 Safari/537.36",
     sec_ch_ua |-> "\"Chromium\";v=\"141\", \"Not_A Brand\";v=\"24\", \"Google Chrome\";v=\"141\"",
     platform |-> "Windows", mobile |-> FALSE,
     ua_has |-> {"Chrome", "Safari"}, ch_has |-> {"Chrome"},
     chrome_v |-> 141, edg_v |-> 0, version_v |-> 0],
    [ua |-> "Mozilla/5.0 (Windows NT 10.0; Win64; x64) AppleWebKit/537.36 (KHTML, like Gecko) Chrome/143.0.0.0 Safari/537.36",
     sec_ch_ua |-> "\"Brave\";v=\"143\", \"Chromium\";v=\"143\", \"Not/A)Brand\";v=\"24\"",
     platform |-> "Windows", mobile |-> FALSE,
     ua_has |-> {"Chrome", "Safari"}, ch_has |-> {"Brave"},
     chrome_v |-> 143, edg_v |-> 0, version_v |-> 0],
    [ua |-> "Mozilla/5.0 (Windows NT 10.0; Win64; x64) AppleWebKit/537.36 (KHTML, like Gecko) Chrome/142.0.0.0 Safari/537.36",
     sec_ch_ua |-> "\"Brave\";v=\"142\", \"Chromium\";v=\"142\", \"Not/A)Brand\";v=\"24\"",
     platform |-> "Windows", mobile |-> FALSE,
     ua_has |-> {"Chrome", "Safari"}, ch_has |-> {"Brave"},
     chrome_v |-> 142, edg_v |-> 0, version_v |-> 0],
    [ua |-> "Mozilla/5.0 (Windows NT 10.0; Win64; x64) AppleWebKit/537.36 (KHTML, like Gecko) Chrome/143.0.0.0 Safari/537.36 Edg/143.0.0.0",
     sec_ch_ua |-> "\"Chromium\";v=\"143\", \"Not/A)Brand\";v=\"24\", \"Microsoft Edge\";v=\"143\"",
     platform |-> "Windows", mobile |-> FALSE,
     ua_has |-> {"Chrome", "Edg", "Safari"}, ch_has |-> {"Edge"},
     chrome_v |-> 143, edg_v |-> 143, version_v |-> 0],
    [ua |-> "Mozilla/5.0 (Windows NT 10.0; Win64; x64) AppleWebKit/537.36 (KHTML, like Gecko) Chrome/142.0.0.0 Safari/537.36 Edg/142.0.0.0",
     sec_ch_ua |-> "\"Chromium\";v=\"142\", \"Not/A)Brand\";v=\"24\", \"Microsoft Edge\";v=\"142\"",
     platform |-> "Windows", mobile |-> FALSE,
     ua_has |-> {"Chrome", "Edg", "Safari"}, ch_has |-> {"Edge"},
     chrome_v |-> 142, edg_v |-> 142, version_v |-> 0],
    [ua |-> "Mozilla/5.0 (Macintosh; Intel Mac OS X 10_15_7) AppleWebKit/537.36 (KHTML, like Gecko) Chrome/144.0.0.0 Safari/537.36",
     sec_ch_ua |-> "\"Not(A:Brand\";v=\"8\", \"Chromium\";v=\"144\", \"Google Chrome\";v=\"144\"",
     platform |-> "macOS", mobile |-> FALSE,
     ua_has |-> {"Chrome", "Safari"}, ch_has |-> {"Chrome"},
     chrome_v |-> 144, edg_v |-> 0, version_v |-> 0],
    [ua |-> "Mozilla/5.0 (Macintosh; Intel Mac OS X 10_15_7) AppleWebKit/537.36 (KHTML, like Gecko) Chrome/143.0.0.0 Safari/537.36",
     sec_ch_ua |-> "\"Chromium\";v=\"143\", \"Not/A)Brand\";v=\"24\", \"Google Chrome\";v=\"143\"",
     platform |-> "macOS", mobile |-> FALSE,
     ua_has |-> {"Chrome", "Safari"}, ch_has |-> {"Chrome"},
     chrome_v |-> 143, edg_v |-> 0, version_v |-> 0],
    [ua |-> "Mozilla/5.0 (Macintosh; Intel Mac OS X 10_15_7) AppleWebKit/537.36 (KHTML, like Gecko) Chrome/142.0.0.0 Safari/537.36",
     sec_ch_ua |-> "\"Chromium\";v=\"142\", \"Not/A)Brand\";v=\"24\", \"Google Chrome\";v=\"142\"",
     platform |-> "macOS", mobile |-> FALSE,
     ua_has |-> {"Chrome", "Safari"}, ch_has |-> {"Chrome"},
     chrome_v |-> 142, edg_v |-> 0, version_v |-> 0],
    [ua |-> "Mozilla/5.0 (Macintosh; Intel Mac OS X 10_15_7) AppleWebKit/537.36 (KHTML, like Gecko) Chrome/141.0.0.0 Safari/537.36",
     sec_ch_ua |-> "\"Chromium\";v=\"141\", \"Not_A Brand\";v=\"24\", \"Google Chrome\";v=\"141\"",
     platform |-> "macOS", mobile |-> FALSE,
     ua_has |-> {"Chrome", "Safari"}, ch_has |-> {"Chrome"},
     chrome_v |-> 141, edg_v |-> 0, version_v |-> 0],
    [ua |-> "Mozilla/5.0 (Macintosh; Intel Mac OS X 10_15_7) AppleWebKit/537.36 (KHTML, like Gecko) Chrome/143.0.0.0 Safari/537.36",
     sec_ch_ua |-> "\"Brave\";v=\"143\", \"Chromium\";v=\"143\", \"Not/A)Brand\";v=\"24\"",
     platform |-> "macOS", mobile |-> FALSE,
     ua_has |-> {"Chrome", "Safari"}, ch_has |-> {"Brave"},
     chrome_v |-> 143, edg_v |-> 0, version_v |-> 0],
    [ua |-> "Mozilla/5.0 (Macintosh; Intel Mac OS X 10_15_7) AppleWebKit/605.1.15 (KHTML, like Gecko) Version/18.3 Safari/605.1.15",
     sec_ch_ua |-> None,
     platform |-> "macOS", mobile |-> FALSE,
     ua_has |-> {"Safari"}, ch_has |-> {},
     chrome_v |-> 0, edg_v |-> 0, version_v |-> 18],
    [ua |-> "Mozilla/5.0 (Macintosh; Intel Mac OS X 10_15_7) AppleWebKit/605.1.15 (KHTML, like Gecko) Version/17.6 Safari/605.1.15",
     sec_ch_ua |-> None,
     platform |-> "macOS", mobile |-> FALSE,
     ua_has |-> {"Safari"}, ch_has |-> {},
     chrome_v |-> 0, edg_v |-> 0, version_v |-> 17],
    [ua |-> "Mozilla/5.0 (iPhone; CPU iPhone OS 18_3 like Mac OS X) AppleWebKit/605.1.15 (KHTML, like Gecko) Version/18.3 Mobile/15E148 Safari/604.1",
     sec_ch_ua |-> None,
     platform |-> "iOS", mobile |-> TRUE,
     ua_has |-> {"Safari"}, ch_has |-> {},
     chrome_v |-> 0, edg_v |-> 0, version_v |-> 18],
    [ua |-> "Mozilla/5.0 (iPhone; CPU iPhone OS 18_2 like Mac OS X) AppleWebKit/605.1.15 (KHTML, like Gecko) Version/18.2 Mobile/15E148 Safari/604.1",
     sec_ch_ua |-> None,
     platform |-> "iOS", mobile |-> TRUE,
     ua_has |-> {"Safari"}, ch_has |-> {},
     chrome_v |-> 0, edg_v |-> 0, version_v |-> 18],
    [ua |-> "Mozilla/5.0 (iPhone; CPU iPhone OS 17_7 like Mac OS X) AppleWebKit/605.1.15 (KHTML, like Gecko) Version/17.7 Mobile/15E148 Safari/604.1",
     sec_ch_ua |-> None,
     platform |-> "iOS", mobile |-> TRUE,
     ua_has |-> {"Safari"}, ch_has |-> {},
     chrome_v |-> 0, edg_v |-> 0, version_v |-> 17],
    [ua |-> "Mozilla/5.0 (iPhone; CPU iPhone OS 18_3 like Mac OS X) AppleWebKit/605.1.15 (KHTML, like Gecko) CriOS/144.0.6917.56 Mobile/15E148 Safari/604.1",
     sec_ch_ua |-> None,
     platform |-> "iOS", mobile |-> TRUE,
     ua_has |-> {"CriOS", "Safari"}, ch_has |-> {},
     chrome_v |-> 0, edg_v |-> 0, version_v |-> 0],
    [ua |-> "Mozilla/5.0 (iPhone; CPU iPhone OS 18_3 like Mac OS X) AppleWebKit/605.1.15 (KHTML, like Gecko) CriOS/143.0.6917.56 Mobile/15E148 Safari/604.1",
     sec_ch_ua |-> None,
     platform |-> "iOS", mobile |-> TRUE,
     ua_has |-> {"CriOS", "Safari"}, ch_has |-> {},
     chrome_v |-> 0, edg_v |-> 0, version_v |-> 0],
    [ua |-> "Mozilla/5.0 (iPhone; CPU iPhone OS 18_2 like Mac OS X) AppleWebKit/605.1.15 (KHTML, like Gecko) CriOS/142.0.6904.80 Mobile/15E148 Safari/604.1",
     sec_ch_ua |-> None,
     platform |-> "iOS", mobile |-> TRUE,
     ua_has |-> {"CriOS", "Safari"}, ch_has |-> {},
     chrome_v |-> 0, edg_v |-> 0, version_v |-> 0],
    [ua |-> "Mozilla/5.0 (Linux; Android 15; Pixel 9) AppleWebKit/537.36 (KHTML, like Gecko) Chrome/144.0.6917.65 Mobile Safari/537.36",
     sec_ch_ua |-> "\"Not(A:Brand\";v=\"8\", \"Chromium\";v=\"144\", \"Google Chrome\";v=\"144\"",
     platform |-> "Android", mobile |-> TRUE,
     ua_has |-> {"Chrome", "Safari"}, ch_has |-> {"Chrome"},
     chrome_v |-> 144, edg_v |-> 0, version_v |-> 0],
    [ua |-> "Mozilla/5.0 (Linux; Android 15; Pixel 9) AppleWebKit/537.36 (KHTML, like Gecko) Chrome/143.0.6917.65 Mobile Safari/537.36",
     sec_ch_ua |-> "\"Chromium\";v=\"143\", \"Not/A)Brand\";v=\"24\", \"Google Chrome\";v=\"143\"",
     platform |-> "Android", mobile |-> TRUE,
     ua_has |-> {"Chrome", "Safari"}, ch_has |-> {"Chrome"},
     chrome_v |-> 143, edg_v |-> 0, version_v |-> 0],
    [ua |-> "Mozilla/5.0 (Linux; Android 14; Pixel 8) AppleWebKit/537.36 (KHTML, like Gecko) Chrome/142.0.6904.111 Mobile Safari/537.36",
     sec_ch_ua |-> "\"Chromium\";v=\"142\", \"Not/A)Brand\";v=\"24\", \"Google Chrome\";v=\"142\"",
     platform |-> "Android", mobile |-> TRUE,
     ua_has |-> {"Chrome", "Safari"}, ch_has |-> {"Chrome"},
     chrome_v |-> 142, edg_v |-> 0, version_v |-> 0],
    [ua |-> "Mozilla/5.0 (Linux; Android 15; SM-S936B) AppleWebKit/537.36 (KHTML, like Gecko) Chrome/143.0.6917.65 Mobile Safari/537.36",
     sec_ch_ua |-> "\"Chromium\";v=\"143\", \"Not/A)Brand\";v=\"24\", \"Google Chrome\";v=\"143\"",
     platform |-> "Android", mobile |-> TRUE,
     ua_has |-> {"Chrome", "Safari"}, ch_has |-> {"Chrome"},
     chrome_v |-> 143, edg_v |-> 0, version_v |-> 0],
    [ua |-> "Mozilla/5.0 (Linux; Android 14; SM-S926B) AppleWebKit/537.36 (KHTML, like Gecko) Chrome/142.0.6904.111 Mobile Safari/537.36",
     sec_ch_ua |-> "\"Chromium\";v=\"142\", \"Not/A)Brand\";v=\"24\", \"Google Chrome\";v=\"142\"",
     platform |-> "Android", mobile |-> TRUE,
     ua_has |-> {"Chrome", "Safari"}, ch_has |-> {"Chrome"},
     chrome_v |-> 142, edg_v |-> 0, version_v |-> 0],
    [ua |-> "Mozilla/5.0 (Linux; Android 15; Pixel 9) AppleWebKit/537.36 (KHTML, like Gecko) Chrome/143.0.6917.65 Mobile Safari/537.36",
     sec_ch_ua |-> "\"Brave\";v=\"143\", \"Chromium\";v=\"143\", \"Not/A)Brand\";v=\"24\"",
     platform |-> "Android", mobile |-> TRUE,
     ua_has |-> {"Chrome", "Safari"}, ch_has |-> {"Brave"},
     chrome_v |-> 143, edg_v |-> 0, version_v |-> 0]
  >>

ProfileIds == DOMAIN PROFILES

\* `"X" in ua` and `"X" in sec_ch_ua` as functions of the strings
UaHas(ua) == (CHOOSE p \in {PROFILES[i] : i \in ProfileIds} : p.ua = ua).ua_has
ChHas(ch) ==
    IF ch = None THEN {}
    ELSE (CHOOSE p \in {PROFILES[i] : i \in ProfileIds} : p.sec_ch_ua = ch).ch_has

\* `platform is None or p["platform"] == platform`
PlatformMatches(p, platform) == platform = None \/ p.platform = platform

\* the platform-browser mapping stated at the head of user_agent.py
PLATFORM_BROWSERS ==
    [Windows |-> {"chrome", "brave", "edge"},
     macOS |-> {"chrome", "safari", "brave"},
     iOS |-> {"safari", "chrome"},
     Android |-> {"chrome", "brave"}]

\* get_random choosing from the whole pool whatever platform is asked for
get_random_AnyPlatform(platform) == ProfileIds

\* get_random choosing from the filtered list even when it is empty
get_random_NoFallback(platform) ==
    LET filtered == {i \in ProfileIds : PROFILES[i].platform = platform}
    IN  IF platform # None /\ platform # ""
        THEN filtered
        ELSE ProfileIds

\* UserAgentGenerator.get_random: the profiles random.choice may return
get_random(platform) ==
    LET filtered == {i \in ProfileIds : PROFILES[i].platform = platform}
    IN  IF platform # None /\ platform # "" /\ filtered # {}
        THEN filtered
        ELSE ProfileIds

\* UserAgentGenerator.get_weighted_random
get_weighted_random ==
    UNION {get_random(p) : p \in {"Windows", "iOS", "Android", "macOS"}}

\* UserAgentGenerator.get_chrome
get_chrome(platform) ==
    LET chrome_profiles ==
            {i \in ProfileIds :
                /\ ("Chrome" \in PROFILES[i].ua_has \/ "CriOS" \in PROFILES[i].ua_has)
                /\ "Edg" \notin PROFILES[i].ua_has
                /\ "Brave" \notin PROFILES[i].ch_has
                /\ PlatformMatches(PROFILES[i], platform)}
    IN  IF chrome_profiles # {} THEN chrome_profiles ELSE get_random(platform)

\* UserAgentGenerator.get_brave
get_brave(platform) ==
    LET brave_profiles ==
            {i \in ProfileIds :
                /\ "Brave" \in PROFILES[i].ch_has
                /\ PlatformMatches(PROFILES[i], platform)}
    IN  IF brave_profiles # {} THEN brave_profiles ELSE get_random(platform)

\* UserAgentGenerator.get_edge
get_edge(platform) ==
    LET edge_profiles ==
            {i \in ProfileIds :
                /\ "Edg" \in PROFILES[i].ua_has
                /\ PlatformMatches(PROFILES[i], platform)}
    IN  IF edge_profiles # {} THEN edge_profiles ELSE get_random(platform)

\* UserAgentGenerator.get_safari
get_safari(platform) ==
    LET safari_profiles ==
            {i \in ProfileIds :
                /\ PROFILES[i].sec_ch_ua = None
                /\ "Safari" \in PROFILES[i].ua_has
                /\ PlatformMatches(PROFILES[i], platform)}
    IN  IF safari_profiles # {} THEN safari_profiles ELSE get_random(platform)

\* f"Chrome/{version}" in ua: the decimal digits of version are a prefix of
\* the digits that follow "Chrome/" (all PROFILES versions have 3 digits)
ChromeVersionIn(version, p) ==
    /\ version > 0
    /\ p.chrome_v > 0
    /\ version \in {p.chrome_v, p.chrome_v \div 10, p.chrome_v \div 100}

\* UserAgentGenerator.get_version
get_version(version, platform) ==
    LET version_profiles ==
            {i \in ProfileIds :
                /\ ChromeVersionIn(version, PROFILES[i])
                /\ "Edg" \notin PROFILES[i].ua_has
                /\ "Brave" \notin PROFILES[i].ch_has
                /\ PlatformMatches(PROFILES[i], platform)}
    IN  IF version_profiles # {} THEN version_profiles ELSE get_random(platform)

\* ------------------------------------------------------------------------
\* config.py: BrowserInfo
\* ------------------------------------------------------------------------
\* BrowserInfo._detect_browser_type(ua, sec_ch_ua)
_detect_browser_type(ua, sec_ch_ua) ==
    IF sec_ch_ua # None /\ "Brave" \in ChHas(sec_ch_ua) THEN "brave"
    ELSE IF sec_ch_ua # None
            /\ ("Edge" \in ChHas(sec_ch_ua) \/ "Edg" \in UaHas(ua)) THEN "edge"
    ELSE IF sec_ch_ua # None /\ "Chrome" \in ChHas(sec_ch_ua) THEN "chrome"
    ELSE IF "Safari" \in UaHas(ua) /\ "Chrome" \notin UaHas(ua)
            /\ "Edg" \notin UaHas(ua) THEN "safari"
    ELSE IF "Edg" \in UaHas(ua) THEN "edge"
    ELSE "chrome"

\* fallback of _extract_version when the pattern does not match
DefaultVersion == 143

\* BrowserInfo._extract_version(ua, browser_type), on the PROFILES entry p
\* whose ua is searched
_extract_version(p, browser_type) ==
    LET matched == IF browser_type = "edge" THEN p.edg_v
                   ELSE IF browser_type = "safari" THEN p.version_v
                   ELSE p.chrome_v
    IN  IF matched # 0 THEN matched ELSE DefaultVersion

\* the profiles BrowserInfo.generate may select (lines 130-159)
SelectProfiles(platform, browser, version) ==
    IF version # Absent /\ browser # None
    THEN IF browser = "chrome" THEN get_version(version[1], platform)
         ELSE IF browser = "brave" THEN get_brave(platform)
         ELSE IF browser = "edge" THEN get_edge(platform)
         ELSE IF browser = "safari" THEN get_safari(platform)
         ELSE get_random(platform)
    ELSE IF browser # None
    THEN IF browser = "chrome" THEN get_chrome(platform)
         ELSE IF browser = "brave" THEN get_brave(platform)
         ELSE IF browser = "edge" THEN get_edge(platform)
         ELSE IF browser = "safari" THEN get_safari(platform)
         ELSE get_random(platform)
    ELSE IF platform # None THEN get_random(platform)
    ELSE get_weighted_random

\* the BrowserInfo built from the selected ua_info (lines 161-173)
BrowserInfoOf(ua_info) ==
    LET browser_type == _detect_browser_type(ua_info.ua, ua_info.sec_ch_ua)
    IN  [version |-> _extract_version(ua_info, browser_type),
         browser_type |-> browser_type,
         user_agent |-> ua_info.ua,
         sec_ch_ua |-> ua_info.sec_ch_ua,
         sec_ch_ua_mobile |-> IF ua_info.mobile THEN "?1" ELSE "?0",
         platform |-> ua_info.platform,
         mobile |-> ua_info.mobile]

\* BrowserInfo.generate(platform, browser, version): the possible results
generate(platform, browser, version) ==
    {BrowserInfoOf(PROFILES[i]) : i \in SelectProfiles(platform, browser, version)}

\* ------------------------------------------------------------------------
\* fingerprint/ja3.py: JA3Generator
\* ------------------------------------------------------------------------
TLS_VERSION == "771"
CIPHERS == "4865-4866-4867-49195-49199-49196-49200-52393-52392-49171-49172-156-157-47-53"
BASE_EXTENSIONS ==
    <<"0", "5", "10", "11", "13", "16", "18", "23", "27", "35", "43", "45",
      "51", "65037", "65281">>
ECH_EXTENSION == "17613"
CURVE_SETS == [old |-> "29-23-24", kyber |-> "4588-29-23-24"]
EC_POINT_FORMATS == "0"
SigAlgList ==
    <<"ecdsa_secp256r1_sha256", "rsa_pss_rsae_sha256", "rsa_pkcs1_sha256",
      "ecdsa_secp384r1_sha384", "rsa_pss_rsae_sha384", "rsa_pkcs1_sha384",
      "rsa_pss_rsae_sha512", "rsa_pkcs1_sha512">>
SIGNATURE_ALGORITHMS ==
    [chrome |-> SigAlgList, brave |-> SigAlgList, edge |-> SigAlgList]

\* the k-th rotation of 1..n: one of the orders random.shuffle can produce
Rotation(n, k) == [i \in 1 .. n |-> ((i - 1 + k) % n) + 1]

\* JA3Generator._permute_extensions; shuffle is the order random.shuffle
\* leaves the copy in, as a permutation of the positions
_permute_extensions(extensions, shuffle) ==
    [i \in 1 .. Len(extensions) |-> extensions[shuffle[i]]]

\* JA3Generator.generate without the copy() of line 122: the class list
\* itself is appended to
JA3GenerateOn_NoCopy(base, version, browser_type, k) ==
    LET extensions == IF version >= 117
                      THEN Append(base, ECH_EXTENSION)
                      ELSE base
        permuted == _permute_extensions(extensions, Rotation(Len(extensions), k))
        curves == IF version >= 130 THEN CURVE_SETS.kyber ELSE CURVE_SETS.old
    IN  [ja3 |-> [tls_version |-> TLS_VERSION, ciphers |-> CIPHERS,
                  extensions |-> permuted, curves |-> curves,
                  ec_point_formats |-> EC_POINT_FORMATS,
                  for_version |-> version, for_browser |-> browser_type],
         base_extensions |-> extensions]

\* JA3Generator.generate with the kyber curves from version 131 on
JA3GenerateOn_LateKyber(base, version, browser_type, k) ==
    LET extensions == IF version >= 117
                      THEN Append(base, ECH_EXTENSION)
                      ELSE base
        permuted == _permute_extensions(extensions, Rotation(Len(extensions), k))
        curves == IF version > 130 THEN CURVE_SETS.kyber ELSE CURVE_SETS.old
    IN  [ja3 |-> [tls_version |-> TLS_VERSION, ciphers |-> CIPHERS,
                  extensions |-> permuted, curves |-> curves,
                  ec_point_formats |-> EC_POINT_FORMATS,
                  for_version |-> version, for_browser |-> browser_type],
         base_extensions |-> base]

\* JA3Generator.generate(version, browser_type) when the class attribute
\* BASE_EXTENSIONS holds the list base; k selects the shuffle.  ja3 is the
\* result: the five comma-separated fields of the JA3 string (for_version /
\* for_browser record the arguments of the call); base_extensions is the
\* class attribute after the call.  The code works on copies (lines 122
\* and 99), so the attribute is left as it was.
JA3GenerateOn(base, version, browser_type, k) ==
    LET extensions == IF version >= 117
                      THEN Append(base, ECH_EXTENSION)
                      ELSE base
        permuted == _permute_extensions(extensions, Rotation(Len(extensions), k))
        curves == IF version >= 130 THEN CURVE_SETS.kyber ELSE CURVE_SETS.old
    IN  [ja3 |-> [tls_version |-> TLS_VERSION, ciphers |-> CIPHERS,
                  extensions |-> permuted, curves |-> curves,
                  ec_point_formats |-> EC_POINT_FORMATS,
                  for_version |-> version, for_browser |-> browser_type],
         base_extensions |-> base]

\* JA3Generator.generate on the class as the source defines it
JA3Generate(version, browser_type, k) ==
    JA3GenerateOn(BASE_EXTENSIONS, version, browser_type, k).ja3

\* JA3Generator.get_extra_fp(browser_type); stream_weight is the random.choice
get_extra_fp(browser_type, stream_weight) ==
    [tls_signature_algorithms |->
         IF browser_type \in DOMAIN SIGNATURE_ALGORITHMS
         THEN SIGNATURE_ALGORITHMS[browser_type]
         ELSE SIGNATURE_ALGORITHMS["chrome"],
     tls_grease |-> TRUE,
     tls_permute_extensions |-> FALSE,
     tls_cert_compression |-> "brotli",
     http2_stream_weight |-> stream_weight,
     http2_stream_exclusive |-> 1,
     for_browser |-> browser_type]

\* ------------------------------------------------------------------------
\* fingerprint/akamai.py: AkamaiGenerator
\* ------------------------------------------------------------------------
WINDOW_UPDATE_VALUES ==
    <<15663105, 15728640, 15794175, 15859710, 15925245,
      15990780, 16056315, 16121850, 16187385, 16252920>>
PRIORITY_VALUES == <<"0", "0", "0", "1", "3">>
PSEUDO_HEADER_ORDERS == <<"m,a,s,p", "m,s,a,p", "m,p,a,s">>
MAX_CONCURRENT_VALUES == <<"3:100", "3:200", "3:500", "3:1000">>

\* AkamaiGenerator._generate_settings(browser_type): the ';'-separated parts;
\* max_concurrent is None (random.random() >= 0.4) or the "3:<n>" drawn
_generate_settings(browser_type, max_concurrent) ==
    IF browser_type = "safari"
    THEN <<"1:4096", "4:4194304", "6:262144">>
    ELSE <<"1:65536">>
         \o (IF browser_type \in {"chrome", "brave"} THEN <<"2:0">> ELSE <<>>)
         \o (IF max_concurrent # None THEN <<max_concurrent>> ELSE <<>>)
         \o <<"4:6291456", "6:262144">>

\* AkamaiGenerator.generate(browser_type): the four '|'-separated fields;
\* for_browser records the argument of the call
AkamaiGenerate(browser_type, max_concurrent, window_update, priority, pseudo_order) ==
    [settings |-> _generate_settings(browser_type, max_concurrent),
     window_update |-> window_update,
     priority |-> priority,
     pseudo_order |-> pseudo_order,
     for_browser |-> browser_type]

\* The d-th combination of random draws of one profile generation that the
\* client specification keeps apart (d in 1..NumDraws).
Draw(d) ==
    [shuffle |-> d - 1,
     stream_weight |-> <<220, 230, 240, 250, 256>>[((d - 1) % 5) + 1],
     max_concurrent |-> IF d % 2 = 0
                        THEN MAX_CONCURRENT_VALUES[((d \div 2 - 1) % 4) + 1]
                        ELSE None,
     window_update |-> WINDOW_UPDATE_VALUES[((d - 1) % 10) + 1],
     priority |-> PRIORITY_VALUES[((3 * d - 3) % 5) + 1],
     pseudo_order |-> PSEUDO_HEADER_ORDERS[((d - 1) % 3) + 1]]

\* ------------------------------------------------------------------------
\* client.py: HTTPClient
\* ------------------------------------------------------------------------
\* arguments given to HTTPClient(...): None, the documented names and one
\* name the code does not know
PlatformArgs == {None, "Windows", "macOS", "iOS", "Android", "Linux"}
BrowserArgs == {None, "chrome", "brave", "edge", "safari", "firefox"}
ClientArgs ==
    [platform : PlatformArgs, browser : BrowserArgs,
     browser_version : Optional({143, 14}), randomize_per_request : BOOLEAN,
     timeout : {30}]

\* f'"{browser_info.platform}"'
Quoted(s) == "\"" \o s \o "\""

\* _generate_profile calling AkamaiGenerator.generate() without its argument
\* (browser_type defaults to "chrome")
ProfileOf_AkamaiDefault(browser_info, draw) ==
    [ja3 |-> JA3Generate(browser_info.version, browser_info.browser_type,
                         draw.shuffle),
     akamai |-> AkamaiGenerate("chrome", draw.max_concurrent,
                               draw.window_update, draw.priority,
                               draw.pseudo_order),
     extra_fp |-> get_extra_fp(browser_info.browser_type, draw.stream_weight),
     user_agent |-> browser_info.user_agent,
     sec_ch_ua |-> browser_info.sec_ch_ua,
     sec_ch_ua_mobile |-> browser_info.sec_ch_ua_mobile,
     sec_ch_ua_platform |-> Quoted(browser_info.platform),
     accept_language |-> None,
     browser_type |-> browser_info.browser_type,
     platform |-> browser_info.platform,
     mobile |-> browser_info.mobile]

\* HTTPClient._generate_profile with the BrowserInfo and the draws it got
ProfileOf(browser_info, draw) ==
    [ja3 |-> JA3Generate(browser_info.version, browser_info.browser_type,
                         draw.shuffle),
     akamai |-> AkamaiGenerate(browser_info.browser_type, draw.max_concurrent,
                               draw.window_update, draw.priority,
                               draw.pseudo_order),
     extra_fp |-> get_extra_fp(browser_info.browser_type, draw.stream_weight),
     user_agent |-> browser_info.user_agent,
     sec_ch_ua |-> browser_info.sec_ch_ua,
     sec_ch_ua_mobile |-> browser_info.sec_ch_ua_mobile,
     sec_ch_ua_platform |-> Quoted(browser_info.platform),
     accept_language |-> None,
     browser_type |-> browser_info.browser_type,
     platform |-> browser_info.platform,
     mobile |-> browser_info.mobile]

\* HTTPClient._generate_profile(): the profiles it may return
_generate_profile(args) ==
    {ProfileOf(browser_info, draw) :
        browser_info \in generate(args.platform, args.browser,
                                  args.browser_version),
        draw \in {Draw(d) : d \in 1 .. NumDraws}}

\* requests.Session(ja3=..., akamai=..., extra_fp=...): a new session object
\* with an empty cookie jar; id tells it from the session it replaces, and
\* dropped remembers the cookies that session held (not a field of the code)
NewSession(p, id) ==
    [id |-> id, ja3 |-> p.ja3, akamai |-> p.akamai, extra_fp |-> p.extra_fp,
     cookies |-> {}, dropped |-> {}]

\* SessionManager(session): keeps a reference to the session
SessionManager(s) == [session |-> s.id]

\* header dictionaries are functions from names to values
EmptyHeaders == <<>>
Update(h, e) ==
    [k \in DOMAIN h \cup DOMAIN e |-> IF k \in DOMAIN e THEN e[k] ELSE h[k]]

ACCEPT_NAVIGATE ==
    "text/html,application/xhtml+xml,application/xml;q=0.9,image/avif,image/webp,image/apng,*/*;q=0.8,application/signed-exchange;v=b3;q=0.7"

\* _get_headers with the first-request test off by one (count <= 1)
ComposeHeaders_FirstTwo(p, count, extra_headers, request_type) ==
    LET is_navigate == request_type = "navigate"
        is_brave == p.browser_type = "brave"
        is_first_request == count <= 1
        h1 == ("accept" :> (IF is_navigate THEN ACCEPT_NAVIGATE ELSE "*/*"))
              @@ ("accept-language" :> "en-US,en;q=0.9")
              @@ ("accept-encoding" :> "gzip, deflate, br, zstd")
              @@ ("cache-control" :>
                     (IF is_first_request THEN "no-cache" ELSE "max-age=0"))
              @@ ("pragma" :> "no-cache")
        h2 == IF is_brave
              THEN Update(h1, ("dnt" :> "1") @@ ("sec-gpc" :> "1"))
              ELSE h1
        h3 == Update(h2, "priority" :> (IF is_navigate THEN "u=0, i" ELSE "u=1, i"))
        h4 == IF p.sec_ch_ua # None /\ p.sec_ch_ua # ""
              THEN Update(h3,
                     ("sec-ch-ua" :> p.sec_ch_ua)
                     @@ ("sec-ch-ua-mobile" :> (IF p.mobile THEN "?1" ELSE "?0"))
                     @@ ("sec-ch-ua-platform" :> Quoted(p.platform)))
              ELSE h3
        h5 == IF is_navigate
              THEN Update(h4,
                     ("sec-fetch-dest" :> "document")
                     @@ ("sec-fetch-mode" :> "navigate")
                     @@ ("sec-fetch-site" :> "none")
                     @@ ("sec-fetch-user" :> "?1"))
              ELSE Update(h4,
                     ("sec-fetch-dest" :> "empty")
                     @@ ("sec-fetch-mode" :> "cors")
                     @@ ("sec-fetch-site" :> "same-site"))
        h6 == IF is_navigate
              THEN Update(h5, "upgrade-insecure-requests" :> "1")
              ELSE h5
        h7 == Update(h6, "user-agent" :> p.user_agent)
    IN  IF extra_headers # EmptyHeaders THEN Update(h7, extra_headers) ELSE h7

\* _get_headers with the overrides merged first, so generated values win
ComposeHeaders_OverridesFirst(p, count, extra_headers, request_type) ==
    LET is_navigate == request_type = "navigate"
        is_brave == p.browser_type = "brave"
        is_first_request == count = 0
        h1 == ("accept" :> (IF is_navigate THEN ACCEPT_NAVIGATE ELSE "*/*"))
              @@ ("accept-language" :> "en-US,en;q=0.9")
              @@ ("accept-encoding" :> "gzip, deflate, br, zstd")
              @@ ("cache-control" :>
                     (IF is_first_request THEN "no-cache" ELSE "max-age=0"))
              @@ ("pragma" :> "no-cache")
        h2 == IF is_brave
              THEN Update(h1, ("dnt" :> "1") @@ ("sec-gpc" :> "1"))
              ELSE h1
        h3 == Update(h2, "priority" :> (IF is_navigate THEN "u=0, i" ELSE "u=1, i"))
        h4 == IF p.sec_ch_ua # None /\ p.sec_ch_ua # ""
              THEN Update(h3,
                     ("sec-ch-ua" :> p.sec_ch_ua)
                     @@ ("sec-ch-ua-mobile" :> (IF p.mobile THEN "?1" ELSE "?0"))
                     @@ ("sec-ch-ua-platform" :> Quoted(p.platform)))
              ELSE h3
        h5 == IF is_navigate
              THEN Update(h4,
                     ("sec-fetch-dest" :> "document")
                     @@ ("sec-fetch-mode" :> "navigate")
                     @@ ("sec-fetch-site" :> "none")
                     @@ ("sec-fetch-user" :> "?1"))
              ELSE Update(h4,
                     ("sec-fetch-dest" :> "empty")
                     @@ ("sec-fetch-mode" :> "cors")
                     @@ ("sec-fetch-site" :> "same-site"))
        h6 == IF is_navigate
              THEN Update(h5, "upgrade-insecure-requests" :> "1")
              ELSE h5
        h7 == Update(h6, "user-agent" :> p.user_agent)
    IN  IF extra_headers # EmptyHeaders THEN Update(extra_headers, h7) ELSE h7

\* the client hints emitted for every profile, with or without sec_ch_ua
ClientHintHeaders_Always(p) ==
    ("sec-ch-ua" :> p.sec_ch_ua)
    @@ ("sec-ch-ua-mobile" :> (IF p.mobile THEN "?1" ELSE "?0"))
    @@ ("sec-ch-ua-platform" :> Quoted(p.platform))

\* lines 198-201: the client hints, emitted when the profile has a sec_ch_ua
\* that is neither None nor empty
ClientHintHeaders(p) ==
    IF p.sec_ch_ua # None /\ p.sec_ch_ua # ""
    THEN ("sec-ch-ua" :> p.sec_ch_ua)
         @@ ("sec-ch-ua-mobile" :> (IF p.mobile THEN "?1" ELSE "?0"))
         @@ ("sec-ch-ua-platform" :> Quoted(p.platform))
    ELSE EmptyHeaders

\* the privacy headers emitted for every browser type
PrivacyHeaders_AnyBrowser(p) == ("dnt" :> "1") @@ ("sec-gpc" :> "1")

\* lines 192-194: the privacy headers of Brave
PrivacyHeaders(p) ==
    IF p.browser_type = "brave"
    THEN ("dnt" :> "1") @@ ("sec-gpc" :> "1")
    ELSE EmptyHeaders

\* the request-type headers with upgrade-insecure-requests on every request
RequestTypeHeaders_UpgradeAlways(request_type) ==
    LET is_navigate == request_type = "navigate"
    IN  ("accept" :> (IF is_navigate THEN ACCEPT_NAVIGATE ELSE "*/*"))
        @@ ("priority" :> (IF is_navigate THEN "u=0, i" ELSE "u=1, i"))
        @@ (IF is_navigate
            THEN ("sec-fetch-dest" :> "document")
                 @@ ("sec-fetch-mode" :> "navigate")
                 @@ ("sec-fetch-site" :> "none")
                 @@ ("sec-fetch-user" :> "?1")
            ELSE ("sec-fetch-dest" :> "empty")
                 @@ ("sec-fetch-mode" :> "cors")
                 @@ ("sec-fetch-site" :> "same-site"))
        @@ ("upgrade-insecure-requests" :> "1")

\* lines 178-185, 196, 203-214: the headers that depend on the request type
\* (every value other than "navigate" is treated like "api")
RequestTypeHeaders(request_type) ==
    LET is_navigate == request_type = "navigate"
    IN  ("accept" :> (IF is_navigate THEN ACCEPT_NAVIGATE ELSE "*/*"))
        @@ ("priority" :> (IF is_navigate THEN "u=0, i" ELSE "u=1, i"))
        @@ (IF is_navigate
            THEN ("sec-fetch-dest" :> "document")
                 @@ ("sec-fetch-mode" :> "navigate")
                 @@ ("sec-fetch-site" :> "none")
                 @@ ("sec-fetch-user" :> "?1")
            ELSE ("sec-fetch-dest" :> "empty")
                 @@ ("sec-fetch-mode" :> "cors")
                 @@ ("sec-fetch-site" :> "same-site"))
        @@ (IF is_navigate
            THEN "upgrade-insecure-requests" :> "1"
            ELSE EmptyHeaders)

\* HTTPClient._get_headers(extra_headers, request_type): the returned dict,
\* for profile p and request counter count.  extra_headers None and {} are
\* both EmptyHeaders (the code only tests its truthiness).  The generated
\* names are distinct, so the dict is the union of the groups; the caller's
\* entries are merged last (headers.update).
ComposeHeaders(p, count, extra_headers, request_type) ==
    LET is_first_request == count = 0
        generated ==
            RequestTypeHeaders(request_type)
            @@ ("accept-language" :> "en-US,en;q=0.9")
            @@ ("accept-encoding" :> "gzip, deflate, br, zstd")
            @@ ("cache-control" :>
                   (IF is_first_request THEN "no-cache" ELSE "max-age=0"))
            @@ ("pragma" :> "no-cache")
            @@ PrivacyHeaders(p)
            @@ ClientHintHeaders(p)
            @@ ("user-agent" :> p.user_agent)
    IN  IF extra_headers # EmptyHeaders
        THEN Update(generated, extra_headers)
        ELSE generated

\* the counter left alone by the second composition
NextCount_SkipSecond(count) == IF count = 1 THEN count ELSE count + 1

\* the counter after _get_headers (line 221)
NextCount(count) == count + 1

\* header arguments callers pass
HeaderArgs ==
    {EmptyHeaders,
     "x-request-id" :> "42",
     "cache-control" :> "no-cache",
     ("accept" :> "application/json") @@ ("user-agent" :> "custom-agent"),
     ("Cache-Control" :> "no-store") @@ ("dnt" :> "0")
         @@ ("sec-ch-ua-mobile" :> "?0")}

\* the argument combinations of the clients that requests are made on
RequestClientArgs ==
    [platform : {"macOS", "Android"}, browser : {None, "brave"},
     browser_version : {Absent}, randomize_per_request : BOOLEAN,
     timeout : {30}]

\* the cookies a response stores in the session that sent the request
ReceivedCookies == {{}, {"sid"}}

\* self._get_proxy_url(): the "http" entry of get_proxies_dict(), <<>> for None
_get_proxy_url(config) ==
    LET dict == get_proxies_dict(config)
    IN  IF dict # <<>> /\ "http" \in DOMAIN dict THEN dict["http"] ELSE <<>>

\* randomize() that keeps the SessionManager of the replaced session
Randomized_KeepManager(p) ==
    [profile |-> p,
     session |-> [NewSession(p, 1 - session.id) EXCEPT !.dropped = session.cookies],
     session_manager |-> session_manager]

\* randomize() that hands the cookies of the replaced session to the new one
Randomized_KeepCookies(p) ==
    LET new_session == [NewSession(p, 1 - session.id)
                            EXCEPT !.cookies = session.cookies]
    IN  [profile |-> p, session |-> new_session,
         session_manager |-> SessionManager(new_session)]

\* HTTPClient.randomize() with the profile p that _generate_profile returned:
\* the new values of _profile, _session and _session_manager
Randomized(p) ==
    LET new_session == [NewSession(p, 1 - session.id)
                            EXCEPT !.dropped = session.cookies]
    IN  [profile |-> p, session |-> new_session,
         session_manager |-> SessionManager(new_session)]

\* a call of client.randomize()
randomize ==
    /\ \E p \in _generate_profile(ctor) :
           LET new == Randomized(p)
           IN  /\ profile' = new.profile
               /\ session' = new.session
               /\ session_manager' = new.session_manager
    /\ headers' = NoValue
    /\ call_args' = NoValue
    /\ sent' = NoValue
    /\ UNCHANGED <<ctor, request_count, composed>>
    /\ UNCHANGED notClient

\* a call of client._get_headers(extra_headers, request_type)
_get_headers(extra_headers, request_type) ==
    /\ request_count < MaxRequests
    /\ headers' = ComposeHeaders(profile, request_count, extra_headers,
                                 request_type)
    /\ call_args' = [extra_headers |-> extra_headers,
                     request_type |-> request_type]
    /\ request_count' = NextCount(request_count)
    /\ composed' = composed + 1
    /\ sent' = NoValue
    /\ UNCHANGED <<ctor, profile, session, session_manager>>
    /\ UNCHANGED notClient

\* line 245 with the test of `headers` left out
UsesCallerHeaders_RawOnly(raw_headers, hdrs) == raw_headers

\* line 245: `if raw_headers and headers`
UsesCallerHeaders(raw_headers, hdrs) == raw_headers /\ hdrs # EmptyHeaders

\* what session.request is called with (lines 252-262), on the session and
\* with the cookies it holds at that moment; args are the caller's headers
\* and raw_headers
Request(request_headers, s, hdrs, raw_headers, failed) ==
    [headers |-> request_headers, session |-> s.id, cookies |-> s.cookies,
     proxy |-> _get_proxy_url(proxy_config), timeout |-> ctor.timeout,
     args |-> [headers |-> hdrs, raw_headers |-> raw_headers],
     failed |-> failed]

\* a call of client._make_request(..., headers=hdrs, raw_headers=raw,
\* request_type=request_type) (get/post/put/delete and each attempt of
\* get_with_retry/post_with_retry); failed says whether session.request
\* raised, received is what the response made the session store
_make_request(hdrs, raw, request_type, failed, received) ==
    /\ request_count < MaxRequests
    /\ failed => received = {}
    /\ \E now \in (IF ctor.randomize_per_request
                    THEN {Randomized(p) : p \in _generate_profile(ctor)}
                    ELSE {[profile |-> profile, session |-> session,
                           session_manager |-> session_manager]}) :
           /\ profile' = now.profile
           /\ session_manager' = now.session_manager
           /\ session' = [now.session EXCEPT !.cookies = @ \cup received]
           /\ IF UsesCallerHeaders(raw, hdrs)
              THEN /\ headers' = NoValue
                   /\ call_args' = NoValue
                   /\ UNCHANGED <<request_count, composed>>
                   /\ sent' = Request(hdrs, now.session, hdrs, raw, failed)
              ELSE /\ headers' = ComposeHeaders(now.profile, request_count,
                                                hdrs, request_type)
                   /\ call_args' = [extra_headers |-> hdrs,
                                    request_type |-> request_type]
                   /\ request_count' = NextCount(request_count)
                   /\ composed' = composed + 1
                   /\ sent' = Request(headers', now.session, hdrs, raw, failed)
    /\ UNCHANGED ctor
    /\ UNCHANGED notClient

\* ------------------------------------------------------------------------
\* The generators called on their own: JA3Generator.generate,
\* AkamaiGenerator.generate and BrowserInfo.generate are class methods; a
\* caller fixes the arguments (gen_call) and calls the method any number of
\* times, each call making its own random draws.
\* ------------------------------------------------------------------------
\* versions on both sides of the thresholds 117 and 130 of ja3.py, and the
\* versions BrowserInfo extracts from Safari and Chrome user agents
GenBrowserTypes == {"chrome", "brave", "edge", "safari"}
\* the calls followed; forced versions of BrowserInfo.generate: two that
\* Chrome profiles match (143, and 14 by its digits) and one that no profile
\* matches
GeneratorCalls ==
    [fn : {"JA3Generator.generate"}, version : {17, 116, 117, 129, 130, 143},
     browser_type : GenBrowserTypes]
    \cup [fn : {"AkamaiGenerator.generate"}, browser_type : GenBrowserTypes]
    \cup [fn : {"BrowserInfo.generate"}, platform : PlatformArgs,
          browser : BrowserArgs, version : Optional({143, 14, 120})]

\* the value a call returned / the exception it raised
ReturnedValue(v) == [kind |-> "returned", value |-> v]

\* a call of JA3Generator.generate(version, browser_type); k is the order
\* random.shuffle leaves the list in
JA3Generator_generate(k) ==
    /\ gen_call.fn = "JA3Generator.generate"
    /\ LET r == JA3GenerateOn(base_extensions, gen_call.version,
                              gen_call.browser_type, k)
       IN  /\ gen_result' = ReturnedValue(r.ja3)
           /\ base_extensions' = r.base_extensions
    /\ UNCHANGED gen_call
    /\ UNCHANGED notGen

\* a call of AkamaiGenerator.generate(browser_type) with its four draws
AkamaiGenerator_generate(max_concurrent, window_update, priority, pseudo_order) ==
    /\ gen_call.fn = "AkamaiGenerator.generate"
    /\ gen_result' = ReturnedValue(
           AkamaiGenerate(gen_call.browser_type, max_concurrent,
                          window_update, priority, pseudo_order))
    /\ UNCHANGED <<gen_call, base_extensions>>
    /\ UNCHANGED notGen

\* a call of BrowserInfo.generate(platform, browser, version): random.choice
\* returns one of the selected profiles and raises IndexError on an empty list
BrowserInfo_generate ==
    /\ gen_call.fn = "BrowserInfo.generate"
    /\ LET candidates == SelectProfiles(gen_call.platform, gen_call.browser,
                                        gen_call.version)
       IN  IF candidates = {}
           THEN gen_result' = [kind |-> "raised", exception |-> "IndexError"]
           ELSE \E i \in candidates :
                    gen_result' = ReturnedValue(BrowserInfoOf(PROFILES[i]))
    /\ UNCHANGED <<gen_call, base_extensions>>
    /\ UNCHANGED notGen

\* ------------------------------------------------------------------------
\* session.py: SessionManager
\* ------------------------------------------------------------------------
\* A cookie of the jar is a record name, value, domain, path, expires,
\* secure; expires is Absent (None) or Given(seconds).  The jar holds at
\* most one cookie per (domain, path, name).
Cookie(name, value, domain, path, expires, secure) ==
    [name |-> name, value |-> value, domain |-> domain, path |-> path,
     expires |-> expires, secure |-> secure]
CookieKey(c) == <<c.domain, c.path, c.name>>

\* dict.get(k, default) on a parsed JSON object
Get(e, k, default) == IF k \in DOMAIN e THEN e[k] ELSE default

\* session.cookies.jar.set_cookie(c): c replaces the cookie with its key
JarSet(j, c) == {x \in j : CookieKey(x) # CookieKey(c)} \cup {c}

\* session.cookies.set(name=, value=, domain=, path=, secure=) as load_cookies
\* and import_session call it: no expiry is passed, the cookie gets none
CookiesSet(j, name, value, domain, path, secure) ==
    JarSet(j, Cookie(name, value, domain, path, Absent, secure))

\* iteration over the jar: the cookies in some fixed order
RECURSIVE JarList(_)
JarList(j) ==
    IF j = {} THEN <<>>
    ELSE LET c == CHOOSE x \in j : TRUE IN <<c>> \o JarList(j \ {c})

\* A JSON document is kept parsed: format says which top-level object it
\* is, cookies lists the cookie objects in file order (for the cookie file,
\* the items of the name -> data object, the key kept in the field name),
\* headers is the "headers" object of a session file.
\* the dict comprehension of save_cookies: one item per cookie name, at the
\* place of the first cookie of that name, holding the data of the last
LastNamed(list, n) ==
    list[CHOOSE i \in 1 .. Len(list) :
             /\ list[i].name = n
             /\ \A j \in (i + 1) .. Len(list) : list[j].name # n]
RECURSIVE DictItems(_, _)
DictItems(list, i) ==
    IF i > Len(list) THEN <<>>
    ELSE (IF \E j \in 1 .. (i - 1) : list[j].name = list[i].name
          THEN <<>>
          ELSE <<LastNamed(list, list[i].name)>>)
         \o DictItems(list, i + 1)

\* cookies_dict of save_cookies (lines 38-47)
CookiesDoc(j) ==
    [format |-> "cookies", cookies |-> DictItems(JarList(j), 1),
     headers |-> EmptyHeaders]

\* session_data of export_session (lines 87-101)
SessionDoc(j, h) ==
    [format |-> "session", cookies |-> JarList(j), headers |-> h]

\* what the file system holds at the path
Missing == [kind |-> "missing"]
\* the whole serialization of doc; by records who wrote it ("user", or the
\* method of the manager)
Complete(doc, by) == [kind |-> "json", doc |-> doc, by |-> by]
\* the file opened with mode "w" (truncated) and the text of the first n
\* cookie objects of doc written to it: not JSON, the closing text is missing
Partial(doc, n) == [kind |-> "partial", doc |-> doc, written |-> n]

\* files a user hands to load_cookies / import_session: none, text that is
\* not JSON, a good session file, a session file with a sparse cookie, a
\* session file and a cookie file whose second cookie lacks a key, and valid
\* JSON whose top level is an array
UserFiles ==
    {Missing, [kind |-> "invalid"]} \cup
    {Complete(doc, "user") :
        doc \in {[format |-> "session",
                  cookies |-> <<Cookie("sid", "abc", "example.com", "/",
                                       Given(1800000000), TRUE)>>,
                  headers |-> ("x-app" :> "1")],
                 [format |-> "session",
                  cookies |-> <<[name |-> "pref", value |-> "dark"]>>,
                  headers |-> EmptyHeaders],
                 [format |-> "session",
                  cookies |-> <<Cookie("sid", "abc", "example.com", "/",
                                       Absent, TRUE),
                                [name |-> "tok", domain |-> "example.com"]>>,
                  headers |-> ("x-app" :> "1")],
                 [format |-> "cookies",
                  cookies |-> <<[name |-> "pref", value |-> "dark"],
                                [name |-> "tok", domain |-> "example.com"]>>,
                  headers |-> EmptyHeaders],
                 [format |-> "array", cookies |-> <<>>,
                  headers |-> EmptyHeaders]}}

\* the loop over the cookie objects (lines 70-77 and 125-132): each object is
\* set on the jar in turn; the first one lacking a required key raises
\* KeyError, the objects before it having been set
RECURSIVE SetEach(_, _, _, _)
SetEach(j, list, i, required) ==
    IF i > Len(list) THEN [jar |-> j, raised |-> None]
    ELSE IF ~(required \subseteq DOMAIN list[i])
    THEN [jar |-> j, raised |-> "KeyError"]
    ELSE SetEach(CookiesSet(j, list[i].name, list[i].value,
                            Get(list[i], "domain", ""),
                            Get(list[i], "path", "/"),
                            Get(list[i], "secure", FALSE)),
                 list, i + 1, required)

\* the jar, the headers and the exception (None: normal return) a call ends with
Outcome(j, h, raised) == [jar |-> j, headers |-> h, raised |-> raised]

\* SessionManager.load_cookies(path) on the file f (lines 62-79)
LoadCookies(f, j, h) ==
    IF f.kind = "missing" THEN Outcome(j, h, None)
    ELSE IF f.kind # "json" THEN Outcome(j, h, "JSONDecodeError")
    ELSE IF f.doc.format = "array" THEN Outcome(j, h, "AttributeError")
    ELSE IF f.doc.format = "session" THEN Outcome(j, h, "TypeError")
    ELSE LET r == SetEach(j, f.doc.cookies, 1, {"value"})
         IN  Outcome(r.jar, h, r.raised)

\* SessionManager.import_session(path) on the file f (lines 116-139): a
\* cookie file has neither a "cookies" nor a "headers" key and sets nothing
ImportSession(f, j, h) ==
    IF f.kind = "missing" THEN Outcome(j, h, None)
    ELSE IF f.kind # "json" THEN Outcome(j, h, "JSONDecodeError")
    ELSE IF f.doc.format = "array" THEN Outcome(j, h, "AttributeError")
    ELSE IF f.doc.format = "cookies" THEN Outcome(j, h, None)
    ELSE LET r == SetEach(j, f.doc.cookies, 1, {"name", "value"})
         IN  IF r.raised # None
             THEN Outcome(r.jar, h, r.raised)
             ELSE Outcome(r.jar, Update(h, f.doc.headers), None)

\* the record of a finished call: what it was called on (before: jar and
\* headers, input: the file), the document it wrote if any, how it ended
Finished(fn, before_jar, before_headers, input, doc, raised) ==
    [fn |-> fn, before |-> [jar |-> before_jar, headers |-> before_headers],
     input |-> input, doc |-> doc, raised |-> raised]

\* a response of session.request sets a cookie
ResponseSetsCookie(c) ==
    /\ writing = NoValue
    /\ Cardinality(JarSet(jar, c)) <= MaxCookies
    /\ jar' = JarSet(jar, c)
    /\ store_op' = NoValue
    /\ UNCHANGED <<session_headers, file, writing>>
    /\ UNCHANGED notStore

\* SessionManager.set_cookie(name, value, domain, path=, secure=)
set_cookie(name, value, domain, path, secure) ==
    /\ writing = NoValue
    /\ Cardinality(CookiesSet(jar, name, value, domain, path, secure)) <= MaxCookies
    /\ jar' = CookiesSet(jar, name, value, domain, path, secure)
    /\ store_op' = NoValue
    /\ UNCHANGED <<session_headers, file, writing>>
    /\ UNCHANGED notStore

\* SessionManager.clear_cookies()
clear_cookies ==
    /\ writing = NoValue
    /\ jar' = {}
    /\ store_op' = NoValue
    /\ UNCHANGED <<session_headers, file, writing>>
    /\ UNCHANGED notStore

\* the manager is given a new session (HTTPClient.randomize, lines 150-154)
NewManagedSession ==
    /\ writing = NoValue
    /\ jar' = {}
    /\ session_headers' = EmptyHeaders
    /\ store_op' = NoValue
    /\ UNCHANGED <<file, writing>>
    /\ UNCHANGED notStore

\* save_cookies / export_session up to `path.open("w")`: the document is
\* built and the file is truncated
OpenForWrite(fn, doc) ==
    /\ writing' = [fn |-> fn, doc |-> doc, previous |-> file]
    /\ file' = Partial(doc, 0)
    /\ store_op' = NoValue
    /\ UNCHANGED <<jar, session_headers>>
    /\ UNCHANGED notStore

\* a call of save_cookies(path), up to the opening of the file
save_cookies ==
    /\ writing = NoValue
    /\ OpenForWrite("save_cookies", CookiesDoc(jar))

\* a call of export_session(path), up to the opening of the file
export_session ==
    /\ writing = NoValue
    /\ OpenForWrite("export_session", SessionDoc(jar, session_headers))

\* json.dump writes the text of the next cookie object
WriteChunk ==
    /\ writing # NoValue
    /\ file.written < Len(writing.doc.cookies)
    /\ file' = Partial(writing.doc, file.written + 1)
    /\ UNCHANGED <<jar, session_headers, writing, store_op>>
    /\ UNCHANGED notStore

\* json.dump writes the closing text and the with block closes the file
CloseFile ==
    /\ writing # NoValue
    /\ file.written = Len(writing.doc.cookies)
    /\ file' = Complete(writing.doc, writing.fn)
    /\ writing' = NoValue
    /\ store_op' = Finished(writing.fn, jar, session_headers, writing.previous,
                            writing.doc, None)
    /\ UNCHANGED <<jar, session_headers>>
    /\ UNCHANGED notStore

\* the write is interrupted (KeyboardInterrupt, OSError of a full disk, the
\* process killed): the file keeps what was written to it
Interrupt(e) ==
    /\ writing # NoValue
    /\ writing' = NoValue
    /\ store_op' = Finished(writing.fn, jar, session_headers, writing.previous,
                            writing.doc, e)
    /\ UNCHANGED <<jar, session_headers, file>>
    /\ UNCHANGED notStore

\* a call of load_cookies(path)
load_cookies ==
    /\ writing = NoValue
    /\ LET r == LoadCookies(file, jar, session_headers)
       IN  /\ Cardinality(r.jar) <= MaxCookies
           /\ jar' = r.jar
           /\ session_headers' = r.headers
           /\ store_op' = Finished("load_cookies", jar, session_headers, file,
                                   NoValue, r.raised)
    /\ UNCHANGED <<file, writing>>
    /\ UNCHANGED notStore

\* a call of import_session(path)
import_session ==
    /\ writing = NoValue
    /\ LET r == ImportSession(file, jar, session_headers)
       IN  /\ Cardinality(r.jar) <= MaxCookies
           /\ jar' = r.jar
           /\ session_headers' = r.headers
           /\ store_op' = Finished("import_session", jar, session_headers, file,
                                   NoValue, r.raised)
    /\ UNCHANGED <<file, writing>>
    /\ UNCHANGED notStore

\* ------------------------------------------------------------------------
\* Several clients in one interpreter: the generator of the module `random`
\* and the identity of RetryConfig objects
\* ------------------------------------------------------------------------
\* two clients, each used by its own thread
Clients == {"a", "b"}

\* size of the generator's state space and the draws followed per client
GeneratorStates == 16
MaxDrawn == 3

\* the generator is deterministic: a state gives the value returned (here
\* the state itself) and the state after the call (a full-period
\* congruential step stands for the Mersenne Twister of CPython)
NextState(s) == (5 * s + 3) % GeneratorStates

RECURSIVE Stream(_, _)
\* the next n values a generator in state s returns
Stream(s, n) == IF n = 0 THEN <<>> ELSE <<s>> \o Stream(NextState(s), n - 1)

\* the generator a client's random calls use: every call site calls a
\* function of the module (random.shuffle, random.choice, random.choices,
\* random.random), which all work on the one hidden instance of the module,
\* whatever client or thread calls
GeneratorOf(c) == rng_state

\* one call of a function of `random` by client c at a call site (the
\* interpreter runs the primitive draws of different threads one after the
\* other)
RandomCall(c, site) ==
    /\ process_call' = [client |-> c, site |-> site]
    /\ draws' = [draws EXCEPT ![c] = Append(@, GeneratorOf(c))]
    /\ rng_state' = NextState(GeneratorOf(c))
    /\ UNCHANGED notRandom

\* JA3Generator._permute_extensions: random.shuffle(extensions)
shuffle_extensions(c) ==
    /\ Len(draws[c]) < MaxDrawn
    /\ RandomCall(c, "random.shuffle")

\* UserAgentGenerator.get_random / get_weighted_random: random.choice,
\* random.choices
choose_profile(c) ==
    /\ Len(draws[c]) < MaxDrawn
    /\ RandomCall(c, "random.choices")

\* AkamaiGenerator._generate_settings / generate: random.random,
\* random.choice
choose_http2(c) ==
    /\ Len(draws[c]) < MaxDrawn
    /\ RandomCall(c, "random.choice")

\* RetryConfig.get_backoff_time: random.random() for the jitter
backoff_jitter(c) ==
    /\ Len(draws[c]) < MaxDrawn
    /\ RandomCall(c, "random.random")

\* RetryConfig objects the caller creates and passes to constructors
CallerObjects == {"cfg1", "cfg2"}

\* HTTPClient.__init__: RetryMixin.__init__ makes a RetryConfig() of the
\* client's own, and a given retry_config replaces it; the object itself is
\* stored, not a copy
ConstructedWith(c, config_arg) ==
    IF config_arg # None THEN config_arg
    ELSE (("a" :> "own_a") @@ ("b" :> "own_b"))[c]

\* RetryMixin.set_retry_config called on client c: the assignments go to the
\* fields of the object self._retry_config refers to
client_set_retry_config(c, max_retries, backoff_factor, retry_on_status, retry_on_timeout) ==
    /\ objects' = [objects EXCEPT ![retry_ref[c]] =
                       Reassigned(@, max_retries, backoff_factor,
                                  retry_on_status, retry_on_timeout)]
    /\ process_call' = [client |-> c, site |-> "set_retry_config"]
    /\ UNCHANGED retry_ref
    /\ UNCHANGED notPolicy

\* ------------------------------------------------------------------------
\* Specifications
\* ------------------------------------------------------------------------
\* the generators as the module defines them, no call made on them by hand
NoGen ==
    /\ base_extensions = BASE_EXTENSIONS
    /\ gen_call = NoValue
    /\ gen_result = NoValue

\* no proxy variable set, no ProxyConfig made from the environment
NoProxy ==
    /\ environ = [HTTPS_PROXY |-> Unset, HTTP_PROXY |-> Unset,
                  https_proxy |-> Unset, http_proxy |-> Unset]
    /\ proxy_config = NoValue
    /\ proxies = NoValue

\* no session manager in use, no file at the path
NoStore ==
    /\ jar = {}
    /\ session_headers = EmptyHeaders
    /\ file = Missing
    /\ writing = NoValue
    /\ store_op = NoValue

\* a client that has not been constructed (SpecRetry drives the mixin alone)
NoClient ==
    /\ ctor = NoValue
    /\ profile = NoValue
    /\ session = NoValue
    /\ session_manager = NoValue
    /\ request_count = 0
    /\ composed = 0
    /\ headers = NoValue
    /\ call_args = NoValue
    /\ sent = NoValue

\* no second client in the process: nothing drawn, no RetryConfig shared
NoProcess ==
    /\ rng_state = 0
    /\ draws = <<>>
    /\ objects = <<>>
    /\ retry_ref = <<>>
    /\ process_call = NoValue

IdleCall ==
    /\ pc = "idle"
    /\ attempt = 0
    /\ n_range = 0
    /\ last_exception = NoValue
    /\ last_response = NoValue
    /\ calls = <<>>
    /\ sleeps = <<>>
    /\ result = NoValue

\* RetryMixin.__init__ (RetryConfig()) or HTTPClient(retry_config=...): the
\* defaults and the policy of tests/conftest.py (backoff_factor 0.1), with
\* either jitter
InitRetry ==
    /\ retry_config \in
         {[c EXCEPT !.jitter = j] :
             c \in {DefaultRetryConfig,
                    [DefaultRetryConfig EXCEPT !.max_retries = 2,
                                               !.backoff_factor = 1]},
             j \in BOOLEAN}
    /\ IdleCall
    /\ NoProcess
    /\ NoClient
    /\ NoGen
    /\ NoStore
    /\ NoProxy

NextRetry ==
    \/ StartCall
    \/ \E s \in Statuses, r1, r2 \in 0 .. (JitterGrid - 1) :
           AttemptResponse(s, r1, r2)
    \/ \E e \in Exceptions, r \in 0 .. (JitterGrid - 1) :
           AttemptException(e, r)
    \/ LoopExit
    \/ \E mr \in Optional(MaxRetriesArgs),
          bf \in Optional(BackoffFactorArgs),
          ros \in Optional(RetryOnStatusArgs),
          rot \in Optional(BOOLEAN) :
           set_retry_config(mr, bf, ros, rot)

SpecRetry == InitRetry /\ [][NextRetry]_vars

\* HTTPClient.__init__: the state after construction with arguments in A,
\* in an environment with one proxy variable set
Constructed(A) ==
    /\ ctor \in A
    /\ profile \in _generate_profile(ctor)
    /\ session = NewSession(profile, 0)
    /\ session_manager = SessionManager(session)
    /\ request_count = 0
    /\ composed = 0
    /\ headers = NoValue
    /\ call_args = NoValue
    /\ sent = NoValue
    /\ retry_config = DefaultRetryConfig
    /\ IdleCall
    /\ NoProcess
    /\ NoGen
    /\ NoStore
    /\ environ =
         [HTTPS_PROXY |-> Unset,
          HTTP_PROXY |-> UrlText(ProxyUrl("http", "", "", <<"host", ":", "8080">>)),
          https_proxy |-> Unset, http_proxy |-> Unset]
    /\ proxy_config = from_env(environ)
    /\ proxies = get_proxies_dict(proxy_config)

InitClient == Constructed(RequestClientArgs)

NextClient ==
    \/ randomize
    \/ \E e \in HeaderArgs, t \in {"navigate", "api"} : _get_headers(e, t)
    \/ \E h \in HeaderArgs, raw \in BOOLEAN, t \in {"navigate", "api"},
          failed \in BOOLEAN :
           _make_request(h, raw, t, failed, {})

SpecClient == InitClient /\ [][NextClient]_vars

\* the same clients talking to a server that sets a cookie: requests with
\* and without one extra header, raw or composed, and randomize()
NextCookies ==
    \/ randomize
    \/ \E h \in {EmptyHeaders, "x-request-id" :> "42"}, raw \in BOOLEAN,
          failed \in BOOLEAN, received \in ReceivedCookies :
           _make_request(h, raw, "api", failed, received)

SpecCookies == InitClient /\ [][NextCookies]_vars

\* construction with every argument combination, followed by randomize()
InitProfile == Constructed(ClientArgs)
NextProfile == randomize
SpecProfile == InitProfile /\ [][NextProfile]_vars

\* the generators called directly, any number of times with the same
\* arguments
InitGen ==
    /\ base_extensions = BASE_EXTENSIONS
    /\ gen_call \in GeneratorCalls
    /\ gen_result = NoValue
    /\ retry_config = DefaultRetryConfig
    /\ IdleCall
    /\ NoProcess
    /\ NoClient
    /\ NoStore
    /\ NoProxy

NextGen ==
    \/ \E k \in 0 .. NumDraws : JA3Generator_generate(k)
    \/ \E mc \in {None} \cup {MAX_CONCURRENT_VALUES[i] : i \in 1 .. 4},
          wu \in {WINDOW_UPDATE_VALUES[i] : i \in 1 .. 10},
          pr \in {PRIORITY_VALUES[i] : i \in 1 .. 5},
          po \in {PSEUDO_HEADER_ORDERS[i] : i \in 1 .. 3} :
           AkamaiGenerator_generate(mc, wu, pr, po)
    \/ BrowserInfo_generate

SpecGen == InitGen /\ [][NextGen]_vars

\* a SessionManager on a new session, and a path holding nothing or a file
\* of the user
InitSession ==
    /\ jar = {}
    /\ session_headers = EmptyHeaders
    /\ file \in UserFiles
    /\ writing = NoValue
    /\ store_op = NoValue
    /\ retry_config = DefaultRetryConfig
    /\ IdleCall
    /\ NoProcess
    /\ NoClient
    /\ NoGen
    /\ NoProxy

NextSession ==
    \/ \E c \in {Cookie("sid", "abc", "example.com", "/",
                         Given(1800000000), TRUE),
                  Cookie("tok", "t1", "example.com", "/api",
                         Given(1800000000), TRUE)} :
           ResponseSetsCookie(c)
    \/ \E c \in {Cookie("sid", "xyz", "other.org", "/", Absent, FALSE),
                  Cookie("pref", "dark", "", "/", Absent, FALSE)} :
           set_cookie(c.name, c.value, c.domain, c.path, c.secure)
    \/ clear_cookies
    \/ NewManagedSession
    \/ save_cookies
    \/ export_session
    \/ WriteChunk
    \/ CloseFile
    \/ \E e \in {"KeyboardInterrupt", "OSError"} : Interrupt(e)
    \/ load_cookies
    \/ import_session

SpecSession == InitSession /\ [][NextSession]_vars

\* a process started with the proxy variables of its environment
InitProxy ==
    /\ environ \in
         [HTTPS_PROXY : {Unset} \cup {UrlText(u) : u \in ProxyUrls},
          HTTP_PROXY : {Unset, UrlText(ProxyUrl("http", "", "",
                                                <<"host", ":", "8080">>))},
          https_proxy : {Unset, UrlText(ProxyUrl("", "user", "pass",
                                                 <<"host", ":", "8080">>))},
          http_proxy : {Unset, UrlText(ProxyUrl("socks5", "user", "pass",
                                                <<"proxy.example.com">>))}]
    /\ proxy_config = NoValue
    /\ proxies = NoValue
    /\ retry_config = DefaultRetryConfig
    /\ IdleCall
    /\ NoProcess
    /\ NoClient
    /\ NoGen
    /\ NoStore

NextProxy ==
    \/ CallFromEnv
    \/ CallGetProxiesDict

SpecProxy == InitProxy /\ [][NextProxy]_vars


\* the interpreter after `import random` (seeded from the system) with two
\* clients that have drawn nothing yet
InitRandom ==
    /\ rng_state \in 0 .. (GeneratorStates - 1)
    /\ draws = [c \in Clients |-> <<>>]
    /\ objects = <<>>
    /\ retry_ref = <<>>
    /\ process_call = NoValue
    /\ retry_config = DefaultRetryConfig
    /\ IdleCall
    /\ NoClient
    /\ NoGen
    /\ NoStore
    /\ NoProxy

NextRandom ==
    \/ \E c \in Clients : shuffle_extensions(c)
    \/ \E c \in Clients : choose_profile(c)
    \/ \E c \in Clients : choose_http2(c)
    \/ \E c \in Clients : backoff_jitter(c)

SpecRandom == InitRandom /\ [][NextRandom]_vars

\* two clients constructed with or without a RetryConfig of the caller, who
\* may pass one object to both
InitPolicies ==
    /\ objects = ("own_a" :> DefaultRetryConfig)
                 @@ ("own_b" :> DefaultRetryConfig)
                 @@ ("cfg1" :> [DefaultRetryConfig EXCEPT !.max_retries = 2,
                                                         !.backoff_factor = 1])
                 @@ ("cfg2" :> [DefaultRetryConfig EXCEPT !.jitter = FALSE])
    /\ \E ra, rb \in {None} \cup CallerObjects :
           retry_ref = ("a" :> ConstructedWith("a", ra))
                       @@ ("b" :> ConstructedWith("b", rb))
    /\ process_call = NoValue
    /\ rng_state = 0
    /\ draws = <<>>
    /\ retry_config = DefaultRetryConfig
    /\ IdleCall
    /\ NoClient
    /\ NoGen
    /\ NoStore
    /\ NoProxy

NextPolicies ==
    \E c \in Clients, mr \in Optional({1}), bf \in Optional({0}),
       ros \in Optional({{404, 503}}), rot \in Optional({FALSE}) :
        client_set_retry_config(c, mr, bf, ros, rot)

SpecPolicies == InitPolicies /\ [][NextPolicies]_vars

\* the steps request_with_retry takes by itself once called: the loop is
\* sequential code that goes on as long as request_func and time.sleep come
\* back, so a call that can take a step eventually takes one
RunCall ==
    \/ \E s \in Statuses, r1, r2 \in 0 .. (JitterGrid - 1) :
           AttemptResponse(s, r1, r2)
    \/ \E e \in Exceptions, r \in 0 .. (JitterGrid - 1) :
           AttemptException(e, r)
    \/ LoopExit

SpecRetryFair == InitRetry /\ [][NextRetry]_vars /\ WF_vars(RunCall)

\* ------------------------------------------------------------------------
\* Properties of the retry engine (checked under SpecRetry)
\* ------------------------------------------------------------------------
\* an outcome of request_func that the current policy classifies as retryable
RetryableFailure(out) ==
    \/ out.kind = "response" /\ out.status \in retry_config.retry_on_status
    \/ out.kind = "exception" /\ retry_config.retry_on_timeout

Returned(v) == pc = "done" /\ result = [kind |-> "return", value |-> v]
RaisedOut(v) == pc = "done" /\ result = [kind |-> "raise", value |-> v]
SleepsAfter(i) == {j \in DOMAIN sleeps : sleeps[j].after = i}

\* C1: with max_retries = N >= 0, a call never makes more than N+1 attempts,
\* and when all N+1 attempts end in retryable failures and the last one is a
\* response with a retryable status, the call has ended after exactly those
\* N+1 attempts by returning that last response.
C1_ExhaustedRetryableResponseReturned ==
    LET N == retry_config.max_retries
    IN  (pc # "idle" /\ N >= 0) =>
          /\ Len(calls) <= N + 1
          /\ (/\ Len(calls) = N + 1
              /\ \A i \in 1 .. (N + 1) : RetryableFailure(calls[i])
              /\ calls[N + 1].kind = "response")
             => Returned(calls[N + 1])

\* C1 witness: max_retries = 2, three 503 responses, the third is returned
C1_Witness ==
    /\ retry_config.max_retries = 2
    /\ Len(calls) = 3
    /\ \A i \in 1 .. 3 : calls[i].kind = "response" /\ calls[i].status = 503
    /\ 503 \in retry_config.retry_on_status
    /\ Returned(calls[3])

\* C2: a response whose status is not in retry_on_status ends the call at
\* once: it is the last attempt, it is the value returned, and no sleep
\* follows it (so a non-retryable first response means exactly one attempt).
C2_NonRetryableResponseReturnedImmediately ==
    \A i \in DOMAIN calls :
        (calls[i].kind = "response"
            /\ calls[i].status \notin retry_config.retry_on_status)
        => /\ i = Len(calls)
           /\ Returned(calls[i])
           /\ SleepsAfter(i) = {}
           /\ (i = 1 => Len(calls) = 1 /\ sleeps = <<>>)

\* C2 witness: a 404 on the first attempt of a policy with retries left
C2_Witness ==
    /\ retry_config.max_retries >= 1
    /\ 404 \notin retry_config.retry_on_status
    /\ Len(calls) = 1
    /\ calls[1].kind = "response" /\ calls[1].status = 404
    /\ Returned(calls[1])
    /\ sleeps = <<>>

\* C3: an exception of request_func is followed by another attempt only if
\* retry_on_timeout is set; with the flag off it is the last attempt, the
\* same exception is what the call raises, and no sleep follows it; with the
\* flag on, attempts left and a non-negative delay the loop goes on.
C3_ExceptionRetriedIffRetryOnTimeout ==
    \A i \in DOMAIN calls :
        calls[i].kind = "exception" =>
          /\ (i < Len(calls) => retry_config.retry_on_timeout)
          /\ (~retry_config.retry_on_timeout =>
                /\ i = Len(calls)
                /\ RaisedOut(calls[i])
                /\ SleepsAfter(i) = {})
          /\ (/\ retry_config.retry_on_timeout
              /\ i <= retry_config.max_retries
              /\ retry_config.backoff_factor >= 0)
             => (i < Len(calls) \/ (pc = "loop" /\ attempt = i))

\* C3 witness: flag off, a retried 503 and then an exception that is raised
C3_Witness ==
    /\ ~retry_config.retry_on_timeout
    /\ Len(calls) = 2
    /\ calls[1].kind = "response"
    /\ calls[2].kind = "exception"
    /\ RaisedOut(calls[2])
    /\ Len(sleeps) = 1

\* C4: with retry_on_timeout set and max_retries = N >= 0, when all N+1
\* attempts raise, the call has ended after exactly those attempts by
\* raising the exception of attempt N+1; it has not returned a response.
C4_ExhaustedExceptionsRaiseLast ==
    LET N == retry_config.max_retries
    IN  (/\ pc # "idle"
         /\ N >= 0
         /\ retry_config.retry_on_timeout
         /\ Len(calls) = N + 1
         /\ \A i \in 1 .. (N + 1) : calls[i].kind = "exception")
        => /\ RaisedOut(calls[N + 1])
           /\ result.kind # "return"
           /\ attempt < n_range

\* C4 witness: three attempts raise, the first and last differ, last is raised
C4_Witness ==
    /\ retry_config.retry_on_timeout
    /\ retry_config.max_retries = 2
    /\ Len(calls) = 3
    /\ \A i \in 1 .. 3 : calls[i].kind = "exception"
    /\ calls[1].name # calls[3].name
    /\ RaisedOut(calls[3])

\* C5: the retry policy always has max_retries >= 0, so a finished call has
\* invoked request_func at least once and has not ended in the post-loop
\* "All retries exhausted without response" branch.
C5_MaxRetriesNonNegative ==
    /\ retry_config.max_retries >= 0
    /\ pc = "done" => (Len(calls) >= 1 /\ ~RaisedOut(ExhaustedError))

\* C6: the k-th sleep of a call (k = 0, 1, ...) is for attempt index k, its
\* delay is backoff_factor * 2^k, scaled by a factor in [0.5, 1.0] when
\* jitter is on; the delay is non-negative and, with jitter off,
\* non-decreasing in the attempt index.
C6_BackoffDelay ==
    \A k \in DOMAIN sleeps :
        LET base == retry_config.backoff_factor * Pow2(sleeps[k].attempt)
        IN  /\ sleeps[k].attempt = k - 1
            /\ IF retry_config.jitter
               THEN \E r \in 0 .. JitterGrid :
                        sleeps[k].delay = base * (JitterGrid + r)
               ELSE sleeps[k].delay = base * DelayScale
            /\ sleeps[k].delay >= 0
            /\ (~retry_config.jitter =>
                  \A j \in 1 .. (k - 1) : sleeps[j].delay <= sleeps[k].delay)

\* ------------------------------------------------------------------------
\* Properties of the client (checked under SpecClient and SpecProfile)
\* ------------------------------------------------------------------------
\* the last step composed a header set
Composed == headers # NoValue

\* C7 as stated: the first composed header set has cache-control "no-cache"
\* and every later one has "max-age=0".
C7_CacheControlFirstOnly ==
    Composed =>
        headers["cache-control"] = (IF composed = 1 THEN "no-cache" ELSE "max-age=0")

\* C7 amended: the first composed header set has cache-control "no-cache" and
\* every later one has "max-age=0", whatever happened in between, unless the
\* caller's overrides of that request name cache-control themselves.
C7_CacheControlFirstOnlyUnlessOverridden ==
    (Composed /\ "cache-control" \notin DOMAIN call_args.extra_headers) =>
        headers["cache-control"] = (IF composed = 1 THEN "no-cache" ELSE "max-age=0")

\* C7 witness: a third header set, composed by a request after randomize on
\* a client that randomizes per request, carries max-age=0
C7_Witness ==
    /\ Composed
    /\ composed = 3
    /\ ctor.randomize_per_request
    /\ sent # NoValue
    /\ "cache-control" \notin DOMAIN call_args.extra_headers
    /\ headers["cache-control"] = "max-age=0"

\* C8: the request counter starts at 0, never decreases, and a step changes
\* it exactly when it composes a header set, then by exactly 1, whatever the
\* request type, the overrides, the browser type or the fate of the request.
C8_CounterCountsComposedSets ==
    /\ (composed = 0 => request_count = 0)
    /\ [][/\ request_count' >= request_count
          /\ (headers' # NoValue => request_count' = request_count + 1)
          /\ (headers' = NoValue => request_count' = request_count)]_vars

\* C8 witness: the second composed set belongs to an api request with
\* overrides that failed in the transport, and the counter is 2
C8_Witness ==
    /\ Composed
    /\ request_count = 2
    /\ composed = 2
    /\ sent # NoValue
    /\ sent.failed
    /\ call_args.request_type = "api"
    /\ call_args.extra_headers # EmptyHeaders

\* C9: every caller-supplied override is in the composed header set with the
\* caller's value, also for names the composer generates.
C9_OverridesWin ==
    Composed =>
        \A k \in DOMAIN call_args.extra_headers :
            /\ k \in DOMAIN headers
            /\ headers[k] = call_args.extra_headers[k]

\* C9 witness: user-agent and accept are overridden and the profile's
\* user-agent is not in the composed set
C9_Witness ==
    /\ Composed
    /\ "user-agent" \in DOMAIN call_args.extra_headers
    /\ headers["user-agent"] = "custom-agent"
    /\ headers["user-agent"] # profile.user_agent
    /\ headers["accept"] = "application/json"

\* the PROFILES entry a user-agent string comes from
EntryOf(ua) == CHOOSE p \in {PROFILES[i] : i \in ProfileIds} : p.ua = ua

\* C10: the TLS fingerprint, the HTTP/2 fingerprint and the extra options of
\* the Profile were generated for the browser_type (and version) of the
\* identity whose user-agent and client-hint the Profile carries, and the
\* browser type re-derived from user_agent and sec_ch_ua is browser_type.
C10_ProfileFromOneIdentity ==
    LET bt == _detect_browser_type(profile.user_agent, profile.sec_ch_ua)
    IN  /\ profile.browser_type = bt
        /\ profile.ja3.for_browser = bt
        /\ profile.akamai.for_browser = bt
        /\ profile.extra_fp.for_browser = bt
        /\ profile.ja3.for_version = _extract_version(EntryOf(profile.user_agent), bt)
        /\ (profile.akamai.settings[1] = "1:4096") = (bt = "safari")
        /\ session.ja3 = profile.ja3
        /\ session.akamai = profile.akamai
        /\ session.extra_fp = profile.extra_fp

\* C10 witness: after randomize(), a client forced to chrome on iOS holds a
\* CriOS identity, which is classified safari, with safari fingerprints
C10_Witness ==
    /\ session.id = 1
    /\ ctor.browser = "chrome"
    /\ ctor.platform = "iOS"
    /\ profile.browser_type = "safari"
    /\ profile.akamai.for_browser = "safari"
    /\ profile.ja3.for_version = DefaultVersion
\* ========================================================================
\* Properties of the generators
\* ========================================================================
Range(s) == {s[i] : i \in DOMAIN s}
\* the fields that make up the JA3 string and the Akamai string
JA3String(ja3) ==
    <<ja3.tls_version, ja3.ciphers, ja3.extensions, ja3.curves,
      ja3.ec_point_formats>>
AkamaiString(a) == <<a.settings, a.window_update, a.priority, a.pseudo_order>>
CalledJA3 == gen_call.fn = "JA3Generator.generate" /\ gen_result # NoValue
CalledAkamai == gen_call.fn = "AkamaiGenerator.generate" /\ gen_result # NoValue
CalledIdentity == gen_call.fn = "BrowserInfo.generate" /\ gen_result # NoValue

\* C11: for browser_type "safari", every call of JA3Generator.generate and
\* of AkamaiGenerator.generate returns the same string as the call before
\* it: no random permutation or choice shows in the result.
C11_SafariFingerprintsConstant ==
    [][/\ (CalledJA3 /\ gen_call.browser_type = "safari")
          => JA3String(gen_result'.value) = JA3String(gen_result.value)
       /\ (CalledAkamai /\ gen_call.browser_type = "safari")
          => AkamaiString(gen_result'.value) = AkamaiString(gen_result.value)]_vars

\* C12: for fixed version and browser type, the extension field of every
\* generated TLS fingerprint lists each of the 15 base ids once, plus 17613
\* exactly when version >= 117, and nothing else; generation leaves the
\* class-level base list as the source defines it.
C12_ExtensionsArePermutation ==
    CalledJA3 =>
        LET ext == gen_result.value.extensions
            ids == {"0", "5", "10", "11", "13", "16", "18", "23", "27", "35",
                    "43", "45", "51", "65037", "65281"}
                   \cup (IF gen_call.version >= 117 THEN {"17613"} ELSE {})
        IN  /\ Range(ext) = ids
            /\ Len(ext) = Cardinality(ids)
            /\ Cardinality(ids) = IF gen_call.version >= 117 THEN 16 ELSE 15
            /\ base_extensions = BASE_EXTENSIONS
C12_Witness ==
    /\ CalledJA3
    /\ gen_call.version = 117
    /\ gen_result.value.extensions[1] = "5"
    /\ "17613" \in Range(gen_result.value.extensions)

\* C13: the curve field depends on the version alone: it is 4588-29-23-24
\* exactly when version >= 130 and 29-23-24 otherwise, whatever the browser
\* type and the permutation drawn.
C13_CurvesByVersion ==
    CalledJA3 =>
        gen_result.value.curves =
            IF gen_call.version >= 130 THEN "4588-29-23-24" ELSE "29-23-24"
C13_Witness ==
    /\ CalledJA3
    /\ gen_call.version = 130
    /\ gen_call.browser_type = "safari"
    /\ gen_result.value.extensions[1] # "0"
    /\ gen_result.value.curves = "4588-29-23-24"

\* C14: when a browser is forced and the platform-browser mapping lists it
\* for the forced platform, the identity's browser_type is the forced browser.
C14_ForcedBrowserHonoured ==
    (/\ CalledIdentity
     /\ gen_call.platform \in DOMAIN PLATFORM_BROWSERS
     /\ gen_call.browser \in PLATFORM_BROWSERS[gen_call.platform]
     /\ gen_result.kind = "returned")
    => gen_result.value.browser_type = gen_call.browser

\* C15: when one of the platforms Windows, macOS, iOS, Android is forced,
\* the identity and the profile built from it have exactly that platform,
\* whatever browser and version are forced with it.
C15_ForcedPlatformHonoured ==
    (ctor # NoValue /\ ctor.platform \in {"Windows", "macOS", "iOS", "Android"})
    => /\ profile.platform = ctor.platform
       /\ profile.sec_ch_ua_platform = Quoted(ctor.platform)
       /\ \E i \in ProfileIds :
              /\ PROFILES[i].platform = ctor.platform
              /\ PROFILES[i].ua = profile.user_agent
C15_Witness ==
    /\ ctor # NoValue
    /\ ctor.platform = "macOS"
    /\ ctor.browser = "edge"
    /\ ctor.browser_version = Given(143)
    /\ session.id = 1
    /\ profile.platform = "macOS"

\* C16: BrowserInfo.generate never raises: for every platform, browser and
\* version argument, unknown names and combinations matching no profile
\* included, it returns the identity of a profile of the pool.
C16_GenerateNeverRaises ==
    CalledIdentity =>
        /\ gen_result.kind = "returned"
        /\ \E i \in ProfileIds : gen_result.value = BrowserInfoOf(PROFILES[i])
C16_Witness ==
    /\ CalledIdentity
    /\ gen_call.platform = "Linux"
    /\ gen_call.browser = "firefox"
    /\ gen_call.version = Given(120)
    /\ gen_result.kind = "returned"
    /\ gen_result.value.platform = "iOS"

\* ========================================================================
\* Properties of session.py
\* ========================================================================
\* the last step ended a call of fn
Ended(fn) == store_op # NoValue /\ store_op.fn = fn

\* the file f is missing, is not JSON, is not the kind of document fn reads,
\* or has a cookie object lacking a key fn requires
MalformedFor(fn, f) ==
    \/ f.kind # "json"
    \/ f.doc.format # (IF fn = "load_cookies" THEN "cookies" ELSE "session")
    \/ \E i \in 1 .. Len(f.doc.cookies) :
           ~((IF fn = "load_cookies" THEN {"value"} ELSE {"name", "value"})
             \subseteq DOMAIN f.doc.cookies[i])

\* C17: load_cookies and import_session of a missing or malformed file
\* (not JSON, or a cookie object lacking a required key) do not raise and
\* leave the jar and the headers of the session exactly as they were.
C17_BadFileLeavesSessionAlone ==
    \A fn \in {"load_cookies", "import_session"} :
        (Ended(fn) /\ MalformedFor(fn, store_op.input))
        => /\ store_op.raised = None
           /\ jar = store_op.before.jar
           /\ session_headers = store_op.before.headers

\* C18: import_session, on a new session, of a file that export_session
\* wrote gives the session the exported cookies (name, value, domain, path,
\* expiry, secure) and the exported headers.
C18_ExportImportRoundTrip ==
    (/\ Ended("import_session")
     /\ store_op.before = [jar |-> {}, headers |-> EmptyHeaders]
     /\ store_op.input.kind = "json"
     /\ store_op.input.by = "export_session")
    => /\ store_op.raised = None
       /\ SessionDoc(jar, session_headers) = store_op.input.doc

\* C19: at every point of save_cookies and export_session, an interruption
\* in the middle of the write included, the path holds either all of what
\* it held before the call or all of the new document.
C19_WritesAreAtomic ==
    /\ writing # NoValue
       => file \in {writing.previous, Complete(writing.doc, writing.fn)}
    /\ \A fn \in {"save_cookies", "export_session"} :
           Ended(fn) => file \in {store_op.input, Complete(store_op.doc, fn)}

\* ========================================================================
\* Properties of ProxyConfig
\* ========================================================================
\* C20: a proxy URL of the environment with embedded credentials is parsed
\* into the username, the password and the URL without the credentials, and
\* get_proxies_dict gives the same URL for "http" and "https": one that
\* contains "username:password@" and equals the URL of the environment.
C20_CredentialsRoundTrip ==
    \A u \in ProxyUrls :
        (/\ u.username # "" /\ u.password # ""
         /\ proxy_config # NoValue
         /\ EnvProxyUrl(environ) = UrlText(u))
        => /\ proxy_config.username = <<u.username>>
           /\ proxy_config.password = <<u.password>>
           /\ First(proxy_config.url, "@") = 0
           /\ Contains(proxy_config.url, u.host)
           /\ proxies # NoValue
              => /\ proxies["http"] = proxies["https"]
                 /\ Contains(proxies["http"],
                             <<u.username, ":", u.password, "@">>)
                 /\ proxies["http"] = UrlText(u)

\* ------------------------------------------------------------------------
\* Properties of the composed header set (checked under SpecClient)
\* ------------------------------------------------------------------------
\* the three client-hint header names
ClientHintNames == {"sec-ch-ua", "sec-ch-ua-mobile", "sec-ch-ua-platform"}

\* the caller's overrides of the last composition name header k
Overridden(k) == k \in DOMAIN call_args.extra_headers

\* header k is in the last composed set with value v
Carries(k, v) == k \in DOMAIN headers /\ headers[k] = v

\* C21 as stated: the client-hint headers are in a composed header set iff
\* the Profile carries a client-hint string; they are absent for every
\* Safari identity, and when present sec-ch-ua-mobile is "?1" iff the
\* identity is mobile.
C21_ClientHintsFollowProfile ==
    Composed =>
        /\ \A k \in ClientHintNames :
               k \in DOMAIN headers <=> profile.sec_ch_ua # None
        /\ (profile.browser_type = "safari" =>
               ClientHintNames \cap DOMAIN headers = {})
        /\ ("sec-ch-ua-mobile" \in DOMAIN headers =>
               (headers["sec-ch-ua-mobile"] = "?1" <=> profile.mobile))

\* C21 amended: for each client-hint header the caller's overrides do not
\* name, the header is in a composed header set iff the Profile carries a
\* client-hint string, it is absent for every Safari identity, and
\* sec-ch-ua-mobile, when present, is "?1" iff the identity is mobile.
C21_ClientHintsFollowProfileUnlessOverridden ==
    Composed =>
        \A k \in ClientHintNames :
            ~Overridden(k) =>
                /\ k \in DOMAIN headers <=> profile.sec_ch_ua # None
                /\ (profile.browser_type = "safari" => k \notin DOMAIN headers)
                /\ (k = "sec-ch-ua-mobile" /\ k \in DOMAIN headers =>
                       (headers[k] = "?1" <=> profile.mobile))

\* C21 witness: a header set composed for a Safari identity, which has no
\* client-hint string, carries none of the three headers
C21_Witness ==
    /\ Composed
    /\ profile.browser_type = "safari"
    /\ profile.sec_ch_ua = None
    /\ ClientHintNames \cap DOMAIN headers = {}
    /\ ClientHintNames \cap DOMAIN call_args.extra_headers = {}

\* C22 as stated: for "navigate" accept is the document list that contains
\* text/html, sec-fetch-dest/mode are document/navigate and
\* upgrade-insecure-requests is present; for "api" accept is "*/*",
\* sec-fetch-dest/mode are empty/cors and neither upgrade-insecure-requests
\* nor sec-fetch-user is present.
C22_HeadersByRequestType ==
    Composed =>
        IF call_args.request_type = "navigate"
        THEN /\ Carries("accept", ACCEPT_NAVIGATE)
             /\ Carries("sec-fetch-dest", "document")
             /\ Carries("sec-fetch-mode", "navigate")
             /\ "upgrade-insecure-requests" \in DOMAIN headers
        ELSE /\ Carries("accept", "*/*")
             /\ Carries("sec-fetch-dest", "empty")
             /\ Carries("sec-fetch-mode", "cors")
             /\ "upgrade-insecure-requests" \notin DOMAIN headers
             /\ "sec-fetch-user" \notin DOMAIN headers

\* C22 amended: the same, for each of these headers that the caller's
\* overrides do not name.
C22_HeadersByRequestTypeUnlessOverridden ==
    Composed =>
        IF call_args.request_type = "navigate"
        THEN /\ Overridden("accept") \/ Carries("accept", ACCEPT_NAVIGATE)
             /\ Overridden("sec-fetch-dest") \/ Carries("sec-fetch-dest", "document")
             /\ Overridden("sec-fetch-mode") \/ Carries("sec-fetch-mode", "navigate")
             /\ "upgrade-insecure-requests" \in DOMAIN headers
        ELSE /\ Overridden("accept") \/ Carries("accept", "*/*")
             /\ Overridden("sec-fetch-dest") \/ Carries("sec-fetch-dest", "empty")
             /\ Overridden("sec-fetch-mode") \/ Carries("sec-fetch-mode", "cors")
             /\ \/ Overridden("upgrade-insecure-requests")
                \/ "upgrade-insecure-requests" \notin DOMAIN headers
             /\ \/ Overridden("sec-fetch-user")
                \/ "sec-fetch-user" \notin DOMAIN headers

\* C22 witness: an api request, not the first of its client, sent with
\* "*/*", empty/cors and without upgrade-insecure-requests
C22_Witness ==
    /\ Composed
    /\ sent # NoValue
    /\ composed = 2
    /\ call_args.request_type = "api"
    /\ ~Overridden("accept")
    /\ sent.headers["accept"] = "*/*"
    /\ sent.headers["sec-fetch-dest"] = "empty"
    /\ sent.headers["sec-fetch-mode"] = "cors"
    /\ "upgrade-insecure-requests" \notin DOMAIN sent.headers

\* C23 as stated: dnt and sec-gpc are present with value "1" in every
\* composed header set of a Brave identity, for both request types and
\* every request count, and are absent for every non-Brave identity unless
\* the caller supplies them.
C23_PrivacyHeadersOfBrave ==
    Composed =>
        \A k \in {"dnt", "sec-gpc"} :
            IF profile.browser_type = "brave"
            THEN Carries(k, "1")
            ELSE Overridden(k) \/ k \notin DOMAIN headers

\* C23 amended: dnt and sec-gpc are present in every composed header set of
\* a Brave identity, with value "1" unless the caller's overrides name them,
\* and are absent for every non-Brave identity unless the caller supplies
\* them.
C23_PrivacyHeadersOfBraveUnlessOverridden ==
    Composed =>
        \A k \in {"dnt", "sec-gpc"} :
            IF profile.browser_type = "brave"
            THEN k \in DOMAIN headers /\ (Overridden(k) \/ headers[k] = "1")
            ELSE Overridden(k) \/ k \notin DOMAIN headers

\* C23 witness: the third header set of a Brave identity, composed for an
\* api request, carries both headers with value "1"
C23_Witness ==
    /\ Composed
    /\ composed = 3
    /\ profile.browser_type = "brave"
    /\ call_args.request_type = "api"
    /\ Carries("dnt", "1")
    /\ Carries("sec-gpc", "1")

\* ------------------------------------------------------------------------
\* Forced versions (checked under SpecGen)
\* ------------------------------------------------------------------------
\* the profiles the filter of get_version selects for a version and platform
VersionFilterSelects(version, platform) ==
    {i \in ProfileIds :
        /\ ChromeVersionIn(version, PROFILES[i])
        /\ "Edg" \notin PROFILES[i].ua_has
        /\ "Brave" \notin PROFILES[i].ch_has
        /\ PlatformMatches(PROFILES[i], platform)}

\* C27: when browser "chrome" and a version v are both forced and the filter
\* of get_version selects at least one profile for v, the version of the
\* resulting identity is v.
C27_ForcedVersionHonoured ==
    (/\ CalledIdentity
     /\ gen_call.browser = "chrome"
     /\ gen_call.version # Absent
     /\ VersionFilterSelects(gen_call.version[1], gen_call.platform) # {}
     /\ gen_result.kind = "returned")
    => gen_result.value.version = gen_call.version[1]

\* ------------------------------------------------------------------------
\* Properties of several clients in one interpreter (SpecRandom,
\* SpecPolicies)
\* ------------------------------------------------------------------------
\* the values the next random calls of client c return, if no other call
\* comes in between
Upcoming(c) == Stream(GeneratorOf(c), MaxDrawn)

\* C24: the random draws of a client come from generator state of its own:
\* a step in which client c draws nothing (another client draws) leaves the
\* values c's next draws return unchanged.
C24_DrawsIndependentPerClient ==
    [][\A c \in Clients :
           draws'[c] = draws[c] => Upcoming(c)' = Upcoming(c)]_vars

\* the RetryConfig client c sees as its policy
PolicyOf(c) == objects[retry_ref[c]]

\* C28: set_retry_config on one client changes the policy of that client
\* only: a call on another client leaves the max_retries, backoff_factor,
\* retry_on_status and retry_on_timeout client d sees, and the fields of the
\* RetryConfig the caller passed to d's constructor, unchanged.
C28_SetRetryConfigIsLocal ==
    [][process_call' # NoValue =>
          \A d \in Clients \ {process_call'.client} :
              /\ PolicyOf(d)' = PolicyOf(d)
              /\ (retry_ref[d] \in CallerObjects =>
                     objects'[retry_ref[d]] = objects[retry_ref[d]])]_vars

\* ------------------------------------------------------------------------
\* Properties of the session a client sends with (checked under SpecCookies)
\* ------------------------------------------------------------------------
\* the last step handed a request to the transport
Sent == sent # NoValue

\* C25: after construction and after any sequence of randomize() calls and
\* requests, the session the client sends with was constructed from the ja3,
\* akamai and extra_fp of the current Profile and the session manager
\* manages exactly that session; a request is sent by that session with
\* headers composed from the same Profile.
C25_SessionBuiltFromCurrentProfile ==
    /\ session.ja3 = profile.ja3
    /\ session.akamai = profile.akamai
    /\ session.extra_fp = profile.extra_fp
    /\ session_manager = SessionManager(session)
    /\ Sent =>
         /\ sent.session = session.id
         /\ Composed =>
              /\ sent.headers = headers
              /\ headers = ComposeHeaders(profile, request_count - 1,
                                          call_args.extra_headers,
                                          call_args.request_type)

\* C25 witness: the second request of a client that randomizes per request
\* failed in the transport (a retried attempt); it was sent by the session
\* of the profile whose user-agent its headers carry
C25_Witness ==
    /\ ctor.randomize_per_request
    /\ Sent
    /\ sent.failed
    /\ composed = 2
    /\ sent.session = session.id
    /\ session.ja3 = profile.ja3
    /\ sent.headers["user-agent"] = profile.user_agent
    /\ session_manager.session = session.id

C30_RandomizeStartsEmptySession ==
    [][session'.id # session.id =>
          /\ session'.ja3 = profile'.ja3
          /\ session_manager' = SessionManager(session')
          /\ retry_config' = retry_config
          /\ proxy_config' = proxy_config
          /\ ctor'.timeout = ctor.timeout
          /\ IF Sent'
             THEN /\ sent'.session = session'.id
                  /\ sent'.cookies = {}
                  /\ sent'.proxy = _get_proxy_url(proxy_config)
                  /\ sent'.timeout = ctor.timeout
             ELSE /\ session'.cookies = {}
                  /\ request_count' = request_count]_vars

\* C30 witness: randomize() was called after two requests on a client that
\* does not randomize per request; the session it replaced held a cookie
\* and the new one holds none
C30_Witness ==
    /\ ~ctor.randomize_per_request
    /\ ~Sent
    /\ request_count = 2
    /\ session.dropped = {"sid"}
    /\ session.cookies = {}

\* ------------------------------------------------------------------------
\* Termination of request_with_retry (checked under SpecRetryFair)
\* ------------------------------------------------------------------------
\* the bounds of C26 on a call in progress or ended: at most max_retries + 1
\* calls of request_func, exactly one sleep between two consecutive attempts,
\* none after the last attempt, and the end is the response or the exception
\* of the last attempt
CallWithinBounds ==
    pc # "idle" =>
        /\ Len(calls) <= retry_config.max_retries + 1
        /\ \A i \in 1 .. (Len(calls) - 1) : Cardinality(SleepsAfter(i)) = 1
        /\ pc = "done" =>
             /\ Len(calls) >= 1
             /\ SleepsAfter(Len(calls)) = {}
             /\ Returned(calls[Len(calls)]) \/ RaisedOut(calls[Len(calls)])

\* every call that has started ends
CallEnds == (pc = "loop") ~> (pc = "done")

\* C26: every call of request_with_retry terminates: it invokes request_func
\* at most max_retries + 1 times, sleeps exactly once between two consecutive
\* attempts and not after the last one, and ends by returning the response
\* of its last attempt or by raising the exception of its last attempt.
C26_CallTerminatesWithLastAttempt == []CallWithinBounds /\ CallEnds

====
